---- MODULE Spec2Model ----
(***************************************************************************)
(* traderfm backend: the request handlers of routes/users.js,              *)
(* routes/questions.js, routes/answers.js and routes/stats.js running      *)
(* concurrently against the single shared sqlite3 connection of            *)
(* utils/database.js.  One step of the model is one store statement of one *)
(* request together with the JavaScript that runs in the same continuation *)
(* (validation before it, the response after it).                          *)
(***************************************************************************)
EXTENDS Integers, Sequences, FiniteSets, TLC

\* ---- bounds ----
MaxReq == 3        \* requests received in one behaviour
MaxFaults == 1     \* store statements that fail for an external reason
MaxPosts == 4      \* question submissions received in one rate-limit window

\* ---- request inputs ----
ali == <<"a", "l", "i">>
bob == <<"b", "o", "b">>
cat == <<"c", "a", "t">>
Cat == <<"C", "a", "t">>
SubmitHandles == {ali, cat}
\* a question text that passes questionRules and holds no profanity
q1 == <<"w", "h", "y", " ", "s", "o", "?">>
QuestionTexts == {q1}
a1 == <<"a", "1">>
AnswerTexts == {a1}
\* handles and question texts at the limits of the validation rules
ab == <<"a", "b">>
a21 == [i \in 1..21 |-> "a"]
d123 == <<"1", "2", "3">>
api == <<"a", "p", "i">>
Secrets == {"key1"}
Ips == {"ip1"}
AuthHandles == {ali, cat}
AuthSecrets == {"key1", "key2"}
\* Date.now()
Timestamps == {<<"1">>, <<"2">>}
TargetIds == {1, 2}

\* the character classes of /^[a-z0-9]+$/ and /^\d+$/
Digits == {"0", "1", "2", "3", "4", "5", "6", "7", "8", "9"}
LowerAlnum == {"a", "b", "c", "d", "e", "f", "g", "h", "i", "j", "k", "l", "m",
               "n", "o", "p", "q", "r", "s", "t", "u", "v", "w", "x", "y", "z"}
              \cup Digits

MaxPages == 2      \* listing requests received in one behaviour

\* ---- rows ----
\* NULL is "" in twitter_id and <<>> in secret_key and twitter_username
NoUser == [id |-> 0, handle |-> <<>>, secret_key |-> <<>>, twitter_id |-> "",
           twitter_username |-> <<>>, auth_type |-> "", is_kol |-> FALSE,
           created_at |-> <<>>, by |-> 0]
NoQuestion == [id |-> 0, user_id |-> 0, text |-> <<>>, ip_address |-> "",
               created_at |-> <<>>, by |-> 0]
NoAnswer == [id |-> 0, question_id |-> 0, user_id |-> 0, question_text |-> <<>>,
             answer_text |-> <<>>, created_at |-> <<>>, updated_at |-> 0, by |-> 0]
NoDeal == [id |-> 0, project_id |-> 0, kol_user_id |-> 0, status |-> "",
           offer_expires_at |-> <<>>, accepted_at |-> <<>>]
NoToken == [userId |-> 0, handle |-> <<>>]

\* bcrypt.hash: one-way, kept distinct from the plaintext
\* storing the secret as it is
Hash_plain(secretKey) == <<"plain", secretKey>>

Hash(secretKey) == <<"bcrypt", secretKey>>

\* jwt.sign({ userId, handle })
generateToken(userId, handle) == [userId |-> userId, handle |-> handle]

VARIABLES
    db,       \* what the shared connection sees: tables and sqlite_sequence
    inTxn,    \* the connection has an open transaction (autocommit off)
    snap,     \* the store as of the open transaction's BEGIN
    reqs,     \* the requests received so far, in order of arrival
    faults,   \* statements that have failed for an external reason
    tokens,   \* the session tokens issued so far
    gone      \* <<table, by, r>>: request r's DELETE removed the row that request
              \* by had inserted (history)

vars == <<db, inTxn, snap, reqs, faults, tokens, gone>>

\* ---- time ----
\* Instants are counted in half days and a day and a time of day are written
\* with one digit each. The seeded rows were written at instant 0 and the k-th
\* request arrives at instant k + 1.
Now == Len(reqs) + 1

DigitOf == <<"0", "1", "2", "3", "4", "5", "6", "7", "8", "9">>

\* SQLite CURRENT_TIMESTAMP in UTC: 'YYYY-MM-DD HH:MM:SS'
CURRENT_TIMESTAMP(tick) == <<DigitOf[(tick \div 2) + 1], " ", DigitOf[(tick % 2) + 1]>>

\* Date.prototype.toISOString: 'YYYY-MM-DDTHH:MM:SS.sssZ'
toISOString(tick) ==
    <<DigitOf[(tick \div 2) + 1], "T", DigitOf[(tick % 2) + 1], ".", "0", "0", "0", "Z">>

\* new Date(text) of a text that toISOString wrote
DateOf(text) ==
    2 * ((CHOOSE i \in 1..10 : DigitOf[i] = text[1]) - 1)
    + ((CHOOSE i \in 1..10 : DigitOf[i] = text[3]) - 1)

\* the bytes of the characters of the two formats
Byte(c) ==
    CASE c = " " -> 32 [] c = "." -> 46 [] c = "T" -> 84 [] c = "Z" -> 90
      [] OTHER -> 47 + (CHOOSE i \in 1..10 : DigitOf[i] = c)

\* a > b in SQLite's BINARY collation of TEXT values (memcmp, then length)
RECURSIVE TextGreater(_, _)
TextGreater(a, b) ==
    IF a = <<>> THEN FALSE
    ELSE IF b = <<>> THEN TRUE
    ELSE IF Byte(Head(a)) # Byte(Head(b)) THEN Byte(Head(a)) > Byte(Head(b))
    ELSE TextGreater(Tail(a), Tail(b))

\* ---- the schema and its migrations (utils/migrations.js) ----
migrations ==
    <<[version |-> 1, description |-> "Add Twitter OAuth columns to users table"],
      [version |-> 2, description |-> "Fix answers table foreign key constraint"],
      [version |-> 3, description |-> "Add updated_at column to answers table"],
      [version |-> 4, description |->
          "Add telegram_chat_id column to users table for notifications"]>>

\* migration 1, columnsToAdd
columnsToAdd ==
    <<"twitter_id", "twitter_username", "twitter_name", "twitter_profile_image",
      "auth_type">>

\* the columns of CREATE TABLE users and CREATE TABLE answers of init;
\* fk: answers.question_id REFERENCES questions(id)
CreatedSchema ==
    [users |-> {"id", "handle", "secret_key", "twitter_id", "twitter_username",
                "twitter_name", "twitter_profile_image", "auth_type", "created_at",
                "updated_at"},
     answers |-> {"id", "question_id", "user_id", "question_text", "answer_text",
                  "created_at", "updated_at"},
     fk |-> FALSE]

\* CREATE TABLE answers_new of migration 2
answers_new ==
    {"id", "question_id", "user_id", "question_text", "answer_text", "created_at"}

\* the schema after the four migrations
MigratedSchema == [CreatedSchema EXCEPT !.users = @ \cup {"telegram_chat_id"}]

\* ---- the store ----
EmptyDb ==
    [users |-> {}, questions |-> {}, answers |-> {}, projects |-> {}, deals |-> {},
     seq |-> [users |-> 0, questions |-> 0, answers |-> 0],
     schema |-> MigratedSchema,
     migrations |-> {migrations[i] : i \in 1..Len(migrations)}]

\* two registered handles that have authenticated, one pending question, and
\* one pending offer of a project of bob to ali
SeededDb ==
    [users |-> {[NoUser EXCEPT !.id = 1, !.handle = ali, !.secret_key = Hash("key1"),
                                !.auth_type = "secret_key",
                                !.created_at = CURRENT_TIMESTAMP(0)],
                [NoUser EXCEPT !.id = 2, !.handle = bob, !.secret_key = Hash("key1"),
                                !.auth_type = "secret_key",
                                !.created_at = CURRENT_TIMESTAMP(0)]},
     questions |-> {[id |-> 1, user_id |-> 1, text |-> q1, ip_address |-> "ip1",
                     created_at |-> CURRENT_TIMESTAMP(0), by |-> 0]},
     answers |-> {},
     projects |-> {[id |-> 1, created_by |-> 2]},
     deals |-> {[NoDeal EXCEPT !.id = 1, !.project_id = 1, !.kol_user_id = 1,
                               !.status = "pending",
                               !.offer_expires_at = toISOString(3)]},
     seq |-> [users |-> 2, questions |-> 1, answers |-> 0],
     schema |-> MigratedSchema,
     migrations |-> {migrations[i] : i \in 1..Len(migrations)}]

SeededTokens == {generateToken(1, ali), generateToken(2, bob)}

\* the store as committed: an open transaction's statements are not in it
Committed == IF inTxn THEN snap ELSE db

Pick(S, none) == IF S = {} THEN none ELSE CHOOSE x \in S : TRUE

getUserByHandle(d, handle) == Pick({u \in d.users : u.handle = handle}, NoUser)

getUserById(d, id) == Pick({u \in d.users : u.id = id}, NoUser)

getQuestionById(d, id) == Pick({q \in d.questions : q.id = id}, NoQuestion)

getAnswerById(d, id) == Pick({a \in d.answers : a.id = id}, NoAnswer)

\* users.handle is UNIQUE
createUserOk(d, handle) == getUserByHandle(d, handle) = NoUser

\* the INSERT without its secret_key column
createUser_unkeyed(d, handle, secretKey, by) ==
    LET id == d.seq.users + 1 IN
    [d EXCEPT !.users = @ \cup {[NoUser EXCEPT !.id = id, !.handle = handle,
                                                !.auth_type = "secret_key",
                                                !.created_at = CURRENT_TIMESTAMP(Now),
                                                !.by = by]},
              !.seq.users = id]

createUser(d, handle, secretKey, by) ==
    LET id == d.seq.users + 1 IN
    [d EXCEPT !.users = @ \cup {[NoUser EXCEPT !.id = id, !.handle = handle,
                                                !.secret_key = secretKey,
                                                !.auth_type = "secret_key",
                                                !.created_at = CURRENT_TIMESTAMP(Now),
                                                !.by = by]},
              !.seq.users = id]

\* questions.user_id REFERENCES users(id), PRAGMA foreign_keys = ON
createQuestionOk(d, userId) == getUserById(d, userId) # NoUser

createQuestion(d, userId, text, ipAddress, by) ==
    LET id == d.seq.questions + 1 IN
    [d EXCEPT !.questions = @ \cup {[id |-> id, user_id |-> userId, text |-> text,
                                     ip_address |-> ipAddress,
                                     created_at |-> CURRENT_TIMESTAMP(Now), by |-> by]},
              !.seq.questions = id]

\* the query without its user_id condition
getUnansweredQuestions_anyone(d, userId) ==
    {q \in d.questions : ~ \E a \in d.answers : a.question_id = q.id}

getUnansweredQuestions(d, userId) ==
    {q \in d.questions :
        q.user_id = userId /\ ~ \E a \in d.answers : a.question_id = q.id}

deleteQuestion(d, id) ==
    [d EXCEPT !.questions = {q \in @ : q.id # id}]

\* answers.user_id REFERENCES users(id); question_id is not a foreign key
createAnswerOk(d, userId) == getUserById(d, userId) # NoUser

\* createAnswer with the two text columns bound the wrong way round
createAnswer_swapped(d, questionId, userId, questionText, answerText, by) ==
    LET id == d.seq.answers + 1 IN
    [d EXCEPT !.answers = @ \cup {[id |-> id, question_id |-> questionId,
                                   user_id |-> userId, question_text |-> answerText,
                                   answer_text |-> questionText,
                                   created_at |-> CURRENT_TIMESTAMP(Now),
                                   updated_at |-> 0, by |-> by]},
              !.seq.answers = id]

\* createAnswer with question_id bound to the user_id column too
createAnswer_misowned(d, questionId, userId, questionText, answerText, by) ==
    LET id == d.seq.answers + 1 IN
    [d EXCEPT !.answers = @ \cup {[id |-> id, question_id |-> questionId,
                                   user_id |-> questionId, question_text |-> questionText,
                                   answer_text |-> answerText,
                                   created_at |-> CURRENT_TIMESTAMP(Now),
                                   updated_at |-> 0, by |-> by]},
              !.seq.answers = id]

createAnswer(d, questionId, userId, questionText, answerText, by) ==
    LET id == d.seq.answers + 1 IN
    [d EXCEPT !.answers = @ \cup {[id |-> id, question_id |-> questionId,
                                   user_id |-> userId, question_text |-> questionText,
                                   answer_text |-> answerText,
                                   created_at |-> CURRENT_TIMESTAMP(Now),
                                   updated_at |-> 0, by |-> by]},
              !.seq.answers = id]

deleteAnswer(d, id, userId) ==
    [d EXCEPT !.answers = {a \in @ : ~ (a.id = id /\ a.user_id = userId)}]

\* the UPDATE writing the new text to question_text as well
updateAnswer_both(d, answerText, id, userId) ==
    [d EXCEPT !.answers =
        {IF a.id = id /\ a.user_id = userId
            THEN [a EXCEPT !.answer_text = answerText, !.question_text = answerText,
                           !.updated_at = @ + 1]
            ELSE a : a \in @}]

\* updated_at = CURRENT_TIMESTAMP is kept as the number of updates of the row
updateAnswer(d, answerText, id, userId) ==
    [d EXCEPT !.answers =
        {IF a.id = id /\ a.user_id = userId
            THEN [a EXCEPT !.answer_text = answerText, !.updated_at = @ + 1]
            ELSE a : a \in @}]

getUserStats(d, userId) ==
    [total_questions |-> Cardinality({q \in d.questions : q.user_id = userId}),
     total_answers |-> Cardinality({a \in d.answers : a.user_id = userId})]

getUserByTwitterId(d, twitterId) ==
    Pick({u \in d.users : u.twitter_id = twitterId}, NoUser)

\* users.handle, users.twitter_id and users.twitter_username are UNIQUE
createTwitterUserOk(d, handle, twitterId, twitterUsername) ==
    \A u \in d.users :
        /\ u.handle # handle
        /\ u.twitter_id # twitterId
        /\ u.twitter_username # twitterUsername

\* the row has no secret_key
createTwitterUser(d, handle, twitterId, twitterUsername, by) ==
    LET id == d.seq.users + 1 IN
    [d EXCEPT !.users = @ \cup {[NoUser EXCEPT !.id = id, !.handle = handle,
                                                !.twitter_id = twitterId,
                                                !.twitter_username = twitterUsername,
                                                !.auth_type = "twitter",
                                                !.created_at = CURRENT_TIMESTAMP(Now),
                                                !.by = by]},
              !.seq.users = id]

updateUserKOLStatus(d, userId, isKol) ==
    [d EXCEPT !.users = {IF u.id = userId THEN [u EXCEPT !.is_kol = isKol] ELSE u :
                            u \in @}]

\* SELECT u.* .. WHERE u.is_kol = 1: every column of the row
getKOLs(d) ==
    {[id |-> u.id, handle |-> u.handle, secret_key |-> u.secret_key,
      twitter_id |-> u.twitter_id, twitter_username |-> u.twitter_username,
      auth_type |-> u.auth_type, is_kol |-> u.is_kol] : u \in {k \in d.users : k.is_kol}}

\* the columns the directory selects
getAllUsers(d) ==
    {[id |-> u.id, handle |-> u.handle, twitter_username |-> u.twitter_username,
      auth_type |-> u.auth_type,
      answer_count |-> Cardinality({a \in d.answers : a.user_id = u.id})] : u \in d.users}

\* the columns the activity feed selects, of the rows with created_at > since;
\* LIMIT 10 is more than the rows a store holds here
getRecentUsers(d, since) ==
    {[id |-> u.id, handle |-> u.handle, twitter_username |-> u.twitter_username,
      auth_type |-> u.auth_type, created_at |-> u.created_at] :
        u \in {x \in d.users : TextGreater(x.created_at, since)}}

\* the query without its created_at condition
getRecentQuestions_all(d, since) ==
    {[id |-> q.id, text |-> q.text, created_at |-> q.created_at,
      user_handle |-> getUserById(d, q.user_id).handle] :
        q \in {x \in d.questions : getUserById(d, x.user_id) # NoUser}}

getRecentQuestions(d, since) ==
    {[id |-> q.id, text |-> q.text, created_at |-> q.created_at,
      user_handle |-> getUserById(d, q.user_id).handle] :
        q \in {x \in d.questions : /\ getUserById(d, x.user_id) # NoUser
                                    /\ TextGreater(x.created_at, since)}}

getRecentAnswers(d, since) ==
    {[id |-> a.id, question_text |-> a.question_text, answer_text |-> a.answer_text,
      created_at |-> a.created_at, user_handle |-> getUserById(d, a.user_id).handle] :
        a \in {x \in d.answers : /\ getUserById(d, x.user_id) # NoUser
                                  /\ TextGreater(x.created_at, since)}}

\* bcrypt.compare(secretKey, hash); it rejects when the hash is not a string
compare(secretKey, hash) == hash = Hash(secretKey)

\* SELECT d.* .. FROM deals d JOIN projects p ON d.project_id = p.id WHERE d.id = ?
getDealById(d, id) ==
    Pick({x \in d.deals : x.id = id /\ \E p \in d.projects : p.id = x.project_id}, NoDeal)

\* UPDATE deals SET status = ? [, accepted_at = CURRENT_TIMESTAMP] WHERE id = ?
updateDealStatus(d, dealId, status) ==
    [d EXCEPT !.deals =
        {IF x.id = dealId
            THEN [x EXCEPT !.status = status,
                           !.accepted_at = IF status = "accepted"
                                              THEN CURRENT_TIMESTAMP(Now) ELSE @]
            ELSE x : x \in @}]

\* the created_at values of rows, greatest first
RECURSIVE Descending(_)
Descending(stamps) ==
    IF stamps = {} THEN <<>>
    ELSE LET top == CHOOSE t \in stamps : \A u \in stamps : ~ TextGreater(u, t) IN
         <<top>> \o Descending(stamps \ {top})

\* ORDER BY created_at DESC: rows of equal created_at come in the order of the
\* table scan, by rowid
RECURSIVE OrderByCreatedAtDesc(_, _)
OrderByCreatedAtDesc(scan, stamps) ==
    IF stamps = <<>> THEN <<>>
    ELSE SelectSeq(scan, LAMBDA x : x.created_at = Head(stamps))
         \o OrderByCreatedAtDesc(scan, Tail(stamps))

\* SELECT * FROM answers WHERE user_id = ? ORDER BY created_at DESC LIMIT ? OFFSET ?
\* SQLite: a negative LIMIT is no limit, a negative OFFSET is 0
getAnswersByUserId(d, userId, limit, offset) ==
    LET rows == {x \in d.answers : x.user_id = userId}
        scan == SelectSeq([i \in 1..d.seq.answers |->
                              Pick({x \in rows : x.id = i}, NoAnswer)],
                          LAMBDA x : x # NoAnswer)
        sorted == OrderByCreatedAtDesc(scan, Descending({x.created_at : x \in rows}))
        rest == SubSeq(sorted, (IF offset < 0 THEN 0 ELSE offset) + 1, Len(sorted))
    IN  IF limit < 0 \/ limit >= Len(rest) THEN rest ELSE SubSeq(rest, 1, limit)

\* SELECT COUNT(*) as count FROM answers WHERE user_id = ?
countAnswersByUserId(d, userId) == Cardinality({x \in d.answers : x.user_id = userId})

\* ---- validation (middleware/validation.js) ----
Upper == <<"A", "B", "C", "D", "E", "F", "G", "H", "I", "J", "K", "L", "M",
           "N", "O", "P", "Q", "R", "S", "T", "U", "V", "W", "X", "Y", "Z">>
Lower == <<"a", "b", "c", "d", "e", "f", "g", "h", "i", "j", "k", "l", "m",
           "n", "o", "p", "q", "r", "s", "t", "u", "v", "w", "x", "y", "z">>

\* String.prototype.toLowerCase on one character
ToLower(c) ==
    IF \E i \in 1..26 : Upper[i] = c
        THEN Lower[CHOOSE i \in 1..26 : Upper[i] = c]
        ELSE c

toLowerCase(s) == [i \in 1..Len(s) |-> ToLower(s[i])]

\* String.prototype.trim, for the blank
RECURSIVE trim(_)
trim(s) ==
    IF s = <<>> THEN s
    ELSE IF Head(s) = " " THEN trim(Tail(s))
    ELSE IF s[Len(s)] = " " THEN trim(SubSeq(s, 1, Len(s) - 1))
    ELSE s

Reserved == {<<"a", "p", "i">>, <<"a", "d", "m", "i", "n">>, <<"i", "n", "b", "o", "x">>,
             <<"l", "o", "g", "i", "n">>, <<"s", "i", "g", "n", "u", "p">>,
             <<"a", "b", "o", "u", "t">>, <<"h", "e", "l", "p">>,
             <<"s", "u", "p", "p", "o", "r", "t">>}

\* the messages of the validators of handleRules that fail on the trimmed value
handleErrors(handle) ==
    LET value == trim(handle) IN
    (IF Len(value) < 3 \/ Len(value) > 20
        THEN {"Handle must be between 3 and 20 characters"} ELSE {})
    \cup (IF value = <<>> \/ \E i \in 1..Len(value) : value[i] \notin LowerAlnum
        THEN {"Handle can only contain lowercase letters and numbers"} ELSE {})
    \cup (IF value # <<>> /\ \A i \in 1..Len(value) : value[i] \in Digits
        THEN {"Handle cannot be only numbers"} ELSE {})
    \cup (IF toLowerCase(value) \in Reserved THEN {"This handle is reserved"} ELSE {})

handleRules(handle) == handleErrors(handle) = {}

\* param('handle').matches(/^[a-z0-9]+$/)
handleParamRules(handle) ==
    /\ Len(handle) >= 1
    /\ \A i \in 1..Len(handle) : handle[i] \in LowerAlnum

\* /[a-zA-Z0-9]/
Alnum == LowerAlnum \cup {Upper[i] : i \in 1..26}

\* questionRules: the trimmed text has 5 to 280 characters, is not one character
\* repeated (/^(.)\1+$/) and holds a letter or a digit
\* the length rule with its upper limit one too high
questionErrors_281(text) ==
    LET value == trim(text) IN
    (IF Len(value) < 5 \/ Len(value) > 281
        THEN {"Question must be between 5 and 280 characters"} ELSE {})
    \cup (IF Len(value) >= 2 /\ \A i \in 1..Len(value) : value[i] = value[1]
        THEN {"Please ask a real question"} ELSE {})
    \cup (IF \A i \in 1..Len(value) : value[i] \notin Alnum
        THEN {"Question must contain some text"} ELSE {})

questionErrors(text) ==
    LET value == trim(text) IN
    (IF Len(value) < 5 \/ Len(value) > 280
        THEN {"Question must be between 5 and 280 characters"} ELSE {})
    \cup (IF Len(value) >= 2 /\ \A i \in 1..Len(value) : value[i] = value[1]
        THEN {"Please ask a real question"} ELSE {})
    \cup (IF \A i \in 1..Len(value) : value[i] \notin Alnum
        THEN {"Question must contain some text"} ELSE {})

questionRules(text) == questionErrors(text) = {}

handleParamErrors(handle) ==
    IF handleParamRules(handle) THEN {} ELSE {"Invalid handle format"}

\* ---- the profanity filter (frontend/src/utils/validation.js) ----
\* one element of a pattern: a character class under + (or under * when opt)
El(chars, opt) == [chars |-> chars, opt |-> opt]

One(c) == El({c}, FALSE)

\* every pattern starts with \b and has the flag i
profanityPatterns ==
    {<<One("f"), El({"u", "*"}, FALSE), One("c"), One("k")>>,
     <<One("s"), One("h"), El({"i", "*"}, FALSE), One("t")>>,
     <<One("a"), One("s"), One("s"), One("h"), One("o"), One("l"), One("e")>>,
     <<One("b"), El({"i", "*"}, FALSE), One("t"), One("c"), One("h")>>,
     <<One("d"), One("a"), One("m"), One("n")>>,
     <<One("h"), One("e"), One("l"), One("l")>>,
     <<One("c"), One("r"), One("a"), One("p")>>,
     <<One("p"), El({"i", "*"}, FALSE), One("s"), One("s")>>,
     <<One("n"), El({"i", "*"}, FALSE), One("g"), One("g"), El({"a", "e"}, FALSE),
       El({"r"}, TRUE)>>,
     <<One("f"), One("a"), One("g"), El({"g"}, TRUE), El({"o", "i"}, FALSE),
       El({"t"}, TRUE)>>,
     <<One("r"), One("e"), One("t"), One("a"), One("r"), One("d")>>,
     <<One("d"), El({"i", "*"}, FALSE), One("c"), One("k")>>,
     <<One("c"), One("o"), One("c"), One("k")>>,
     <<One("p"), One("u"), One("s"), One("s"), One("y")>>,
     <<One("c"), One("u"), One("n"), One("t")>>,
     <<One("w"), One("t"), One("f")>>,
     <<One("s"), One("t"), One("f"), One("u")>>}

RECURSIVE MatchFrom(_, _, _, _)
RECURSIVE MatchMore(_, _, _, _)
\* elements k.. of pattern match text from position i on
MatchFrom(pattern, k, text, i) ==
    \/ k > Len(pattern)
    \/ k <= Len(pattern) /\ pattern[k].opt /\ MatchFrom(pattern, k + 1, text, i)
    \/ k <= Len(pattern) /\ MatchMore(pattern, k, text, i)

\* element k takes the character at i, then takes more or hands over
MatchMore(pattern, k, text, i) ==
    /\ i <= Len(text)
    /\ ToLower(text[i]) \in pattern[k].chars
    /\ \/ MatchMore(pattern, k, text, i + 1)
       \/ MatchFrom(pattern, k + 1, text, i + 1)

\* \w
WordChars == Alnum \cup {"_"}

\* \b in front of position i
WordStart(text, i) ==
    /\ text[i] \in WordChars
    /\ i = 1 \/ text[i - 1] \notin WordChars

\* pattern.test(text)
test(pattern, text) ==
    \E i \in 1..Len(text) : WordStart(text, i) /\ MatchFrom(pattern, 1, text, i)

\* the digits that look like letters
LookAlike(c) ==
    IF c = "0" THEN "o" ELSE IF c = "1" THEN "i" ELSE IF c = "3" THEN "e"
    ELSE IF c = "4" THEN "a" ELSE IF c = "5" THEN "s" ELSE IF c = "7" THEN "t"
    ELSE c

\* text.replace(/[@#$%&*]/g, '').replace(/[0-9]/g, ..)
RECURSIVE normalize(_)
normalize(text) ==
    IF text = <<>> THEN <<>>
    ELSE IF Head(text) \in {"@", "#", "$", "%", "&", "*"} THEN normalize(Tail(text))
    ELSE <<LookAlike(Head(text))>> \o normalize(Tail(text))

containsProfanity(text) ==
    /\ text # <<>>
    /\ \/ \E pattern \in profanityPatterns : test(pattern, text)
       \/ \E pattern \in profanityPatterns : test(pattern, normalize(text))

\* ---- requests ----
\* questions, users: the rows of a listing response; token: the token issued;
\* answers, total, page, pages: the body of GET /answers/:handle, where answers
\* is a sequence
NoResp == [status |-> 0, message |-> "", error |-> "", id |-> 0, secretKey |-> "",
           stats |-> [totalQuestions |-> 0, totalAnswers |-> 0,
                      unansweredQuestions |-> 0, submitted |-> 0],
           questions |-> {}, twin |-> {}, users |-> {},
           answers |-> {}, token |-> NoToken, errors |-> {}, deal |-> NoDeal,
           total |-> 0, page |-> 0, pages |-> 0]

Resp(status, message) == [NoResp EXCEPT !.status = status, !.message = message]

\* validate: 400 with the messages of the validators that failed
Invalid(errors) == [Resp(400, "Validation failed") EXCEPT !.errors = errors]

Succeeded(i) == reqs[i].pc = "done" /\ reqs[i].resp.status \in {200, 201}

Max(S) == IF S = {} THEN 0 ELSE CHOOSE x \in S : \A y \in S : y <= x

\* owner (history): user_id of the targeted row when the request's statement met it
\* txn (history): what became of the request's transaction
\* ran (history): the migrations whose up a run of runMigrations has called, in
\*   order, each with whether up returned
\* prior (history): what had already been answered when the request arrived.
\*   Answer, Discard: 1 when an Answer or Discard of the same id had succeeded
\*   Register: 1 when a Register of a case variant of the handle had succeeded
\*   Stats: the largest totalQuestions already reported for the handle
Prior(kind, handle, id) ==
    IF kind \in {"Answer", "Discard"}
        THEN IF \E i \in 1..Len(reqs) : /\ reqs[i].kind \in {"Answer", "Discard"}
                                        /\ reqs[i].id = id /\ Succeeded(i)
                THEN 1 ELSE 0
    ELSE IF kind = "Register"
        THEN IF \E i \in 1..Len(reqs) : /\ reqs[i].kind = "Register" /\ Succeeded(i)
                                        /\ toLowerCase(reqs[i].handle) = toLowerCase(handle)
                THEN 1 ELSE 0
    ELSE IF kind = "Stats"
        THEN Max({reqs[i].resp.stats.totalQuestions : i \in
                    {j \in 1..Len(reqs) : /\ reqs[j].kind = "Stats" /\ Succeeded(j)
                                          /\ reqs[j].handle = handle}})
    ELSE 0

NewReq(kind, token, handle, id, text) ==
    [kind |-> kind, token |-> token, handle |-> handle, id |-> id, text |-> text,
     pc |-> "new", user |-> [id |-> 0, handle |-> <<>>], question |-> NoQuestion, err |-> "",
     resp |-> NoResp, prior |-> Prior(kind, handle, id), owner |-> 0, txn |-> "",
     ip |-> "", via |-> {}, row |-> NoUser, query |-> [page |-> <<>>, limit |-> <<>>],
     appliedMigrations |-> {}, ran |-> <<>>]

Done(rec, resp) == [rec EXCEPT !.pc = "done", !.resp = resp]

\* trusting the identity recorded in the token
authenticate_cached(rec, failed, nextPc) ==
    IF failed THEN Done(rec, Resp(401, "Invalid token"))
    ELSE [rec EXCEPT !.pc = nextPc,
                     !.user = [id |-> rec.token.userId, handle |-> rec.token.handle]]

\* middleware/auth.js authenticate: the row is read again on every request
authenticate(rec, failed, nextPc) ==
    LET user == getUserById(db, rec.token.userId) IN
    IF failed THEN Done(rec, Resp(401, "Invalid token"))
    ELSE IF user = NoUser THEN Done(rec, Resp(401, "User not found"))
    ELSE [rec EXCEPT !.pc = nextPc, !.user = [id |-> user.id, handle |-> user.handle]]

Init ==
    /\ \/ db = EmptyDb /\ tokens = {}
       \/ db = SeededDb /\ tokens = SeededTokens
    /\ inTxn = FALSE
    /\ snap = db
    /\ reqs = <<>>
    /\ faults = 0
    /\ gone = {}

\* the statement of a step either runs or fails for an external reason
Stmt(failed) ==
    /\ failed \in BOOLEAN
    /\ failed => (faults < MaxFaults)
    /\ faults' = IF failed THEN faults + 1 ELSE faults

\* a request arrives and authenticate runs its SELECT
StartAuthed(kind, handle, id, text, nextPc) ==
    /\ Len(reqs) < MaxReq
    /\ \E token \in tokens, failed \in BOOLEAN :
        /\ Stmt(failed)
        /\ reqs' = Append(reqs, authenticate(NewReq(kind, token, handle, id, text),
                                             failed, nextPc))
    /\ UNCHANGED <<db, inTxn, snap, tokens, gone>>

\* ---- POST /questions/:id/answer (routes/questions.js, callback throws) ----
StartAnswer ==
    \E id \in TargetIds, text \in AnswerTexts :
        StartAuthed("Answer", <<>>, id, text, "begin")

\* runTransaction: BEGIN TRANSACTION is awaited outside the try
AnswerBegin(r) ==
    /\ reqs[r].kind = "Answer" /\ reqs[r].pc = "begin"
    /\ \E failed \in BOOLEAN :
        /\ Stmt(failed)
        /\ IF failed \/ inTxn
              THEN /\ reqs' = [reqs EXCEPT ![r] = Done(@, Resp(500, "Server error"))]
                   /\ UNCHANGED <<inTxn, snap>>
              ELSE /\ inTxn' = TRUE
                   /\ snap' = db
                   /\ reqs' = [reqs EXCEPT ![r].pc = "get", ![r].txn = "open"]
    /\ UNCHANGED <<db, tokens, gone>>

Throw(rec, err) == [rec EXCEPT !.pc = "rollback", !.err = err]

AnswerGet(r) ==
    /\ reqs[r].kind = "Answer" /\ reqs[r].pc = "get"
    /\ \E failed \in BOOLEAN :
        /\ Stmt(failed)
        /\ LET question == getQuestionById(db, reqs[r].id) IN
           reqs' = [reqs EXCEPT ![r] =
              IF failed THEN Throw(@, "SQLITE_ERROR")
              ELSE IF question = NoQuestion THEN Throw(@, "Question not found")
              ELSE IF question.user_id # @.user.id
                 THEN [Throw(@, "Unauthorized") EXCEPT !.owner = question.user_id]
              ELSE [@ EXCEPT !.pc = "insert", !.question = question,
                             !.owner = question.user_id]]
    /\ UNCHANGED <<db, inTxn, snap, tokens, gone>>

AnswerInsert(r) ==
    /\ reqs[r].kind = "Answer" /\ reqs[r].pc = "insert"
    /\ \E failed \in BOOLEAN :
        /\ Stmt(failed)
        /\ IF failed \/ ~ createAnswerOk(db, reqs[r].user.id)
              THEN /\ reqs' = [reqs EXCEPT ![r] = Throw(@, "SQLITE_ERROR")]
                   /\ db' = db
              ELSE /\ db' = createAnswer(db, reqs[r].id, reqs[r].user.id,
                                         reqs[r].question.text, trim(reqs[r].text), r)
                   /\ reqs' = [reqs EXCEPT ![r].pc = "delete",
                                           ![r].resp.id = db'.seq.answers]
    /\ UNCHANGED <<inTxn, snap, tokens, gone>>

Removed(table, rows, r) == {<<table, x.by, r>> : x \in rows}

AnswerDelete(r) ==
    /\ reqs[r].kind = "Answer" /\ reqs[r].pc = "delete"
    /\ \E failed \in BOOLEAN :
        /\ Stmt(failed)
        /\ IF failed
              THEN /\ reqs' = [reqs EXCEPT ![r] = Throw(@, "SQLITE_ERROR")]
                   /\ UNCHANGED <<db, gone>>
              ELSE /\ db' = deleteQuestion(db, reqs[r].id)
                   /\ gone' = gone \cup Removed("questions", db.questions \ db'.questions, r)
                   /\ reqs' = [reqs EXCEPT ![r].pc = "commit"]
    /\ UNCHANGED <<inTxn, snap, tokens>>

\* runTransaction: COMMIT; a failing COMMIT leaves the transaction open
AnswerCommit(r) ==
    /\ reqs[r].kind = "Answer" /\ reqs[r].pc = "commit"
    /\ \E failed \in BOOLEAN :
        /\ Stmt(failed)
        /\ IF failed \/ ~ inTxn
              THEN /\ reqs' = [reqs EXCEPT ![r] = Throw(@, "SQLITE_ERROR")]
                   /\ UNCHANGED inTxn
              ELSE /\ inTxn' = FALSE
                   /\ reqs' = [reqs EXCEPT ![r] =
                         [Done(@, [Resp(201, "Answer posted successfully")
                                     EXCEPT !.id = reqs[r].resp.id])
                            EXCEPT !.txn = "committed"]]
    /\ UNCHANGED <<db, snap, tokens, gone>>

\* the handler's catch maps the thrown message to the response
AnswerCatch(err) ==
    IF err = "Question not found" THEN Resp(404, "Question not found")
    ELSE IF err = "Unauthorized" THEN Resp(403, "Unauthorized")
    ELSE Resp(500, "Server error")

\* runTransaction: ROLLBACK, then the error is thrown again
AnswerRollback(r) ==
    /\ reqs[r].kind = "Answer" /\ reqs[r].pc = "rollback"
    /\ \E failed \in BOOLEAN :
        /\ Stmt(failed)
        /\ IF failed \/ ~ inTxn
              THEN /\ reqs' = [reqs EXCEPT ![r] = Done(@, AnswerCatch("SQLITE_ERROR"))]
                   /\ UNCHANGED <<db, inTxn>>
              ELSE /\ db' = snap
                   /\ inTxn' = FALSE
                   /\ reqs' = [reqs EXCEPT ![r] =
                         [Done(@, AnswerCatch(@.err)) EXCEPT !.txn = "rolled back"]]
    /\ UNCHANGED <<snap, tokens, gone>>

\* ---- DELETE /questions/:id ----
DiscardGet(r) ==
    /\ reqs[r].kind = "Discard" /\ reqs[r].pc = "get"
    /\ \E failed \in BOOLEAN :
        /\ Stmt(failed)
        /\ LET question == getQuestionById(db, reqs[r].id) IN
           reqs' = [reqs EXCEPT ![r] =
              IF failed THEN Done(@, Resp(500, "Server error"))
              ELSE IF question = NoQuestion THEN Done(@, Resp(404, "Question not found"))
              ELSE IF question.user_id # @.user.id
                 THEN [Done(@, Resp(403, "Unauthorized")) EXCEPT !.owner = question.user_id]
              ELSE [@ EXCEPT !.pc = "delete", !.question = question,
                             !.owner = question.user_id]]
    /\ UNCHANGED <<db, inTxn, snap, tokens, gone>>

DiscardDelete(r) ==
    /\ reqs[r].kind = "Discard" /\ reqs[r].pc = "delete"
    /\ \E failed \in BOOLEAN :
        /\ Stmt(failed)
        /\ IF failed
              THEN /\ reqs' = [reqs EXCEPT ![r] = Done(@, Resp(500, "Server error"))]
                   /\ UNCHANGED <<db, gone>>
              ELSE /\ db' = deleteQuestion(db, reqs[r].id)
                   /\ gone' = gone \cup Removed("questions", db.questions \ db'.questions, r)
                   /\ reqs' = [reqs EXCEPT ![r] =
                         Done(@, Resp(200, "Question deleted successfully"))]
    /\ UNCHANGED <<inTxn, snap, tokens>>

\* ---- PUT /answers/:id ----
StartEditAnswer ==
    \E id \in TargetIds, text \in {<<"a", "2">>} :
        StartAuthed("EditAnswer", <<>>, id, text, "update")

EditAnswerUpdate(r) ==
    /\ reqs[r].kind = "EditAnswer" /\ reqs[r].pc = "update"
    /\ \E failed \in BOOLEAN :
        /\ Stmt(failed)
        /\ IF failed
              THEN /\ reqs' = [reqs EXCEPT ![r] = Done(@, Resp(500, "Server error"))]
                   /\ db' = db
              ELSE /\ db' = updateAnswer(db, reqs[r].text, reqs[r].id, reqs[r].user.id)
                   /\ reqs' = [reqs EXCEPT ![r] =
                         [(IF db' = db
                             THEN Done(@, Resp(404, "Answer not found or unauthorized"))
                             ELSE Done(@, Resp(200, "Answer updated successfully")))
                            EXCEPT !.owner = getAnswerById(db, reqs[r].id).user_id]]
    /\ UNCHANGED <<inTxn, snap, tokens, gone>>

\* ---- DELETE /answers/:id ----
DeleteAnswerRun(r) ==
    /\ reqs[r].kind = "DeleteAnswer" /\ reqs[r].pc = "delete"
    /\ \E failed \in BOOLEAN :
        /\ Stmt(failed)
        /\ IF failed
              THEN /\ reqs' = [reqs EXCEPT ![r] = Done(@, Resp(500, "Server error"))]
                   /\ UNCHANGED <<db, gone>>
              ELSE /\ db' = deleteAnswer(db, reqs[r].id, reqs[r].user.id)
                   /\ gone' = gone \cup Removed("answers", db.answers \ db'.answers, r)
                   /\ reqs' = [reqs EXCEPT ![r] =
                         [(IF db' = db
                             THEN Done(@, Resp(404, "Answer not found or unauthorized"))
                             ELSE Done(@, Resp(200, "Answer deleted successfully")))
                            EXCEPT !.owner = getAnswerById(db, reqs[r].id).user_id]]
    /\ UNCHANGED <<inTxn, snap, tokens>>

\* ---- POST /questions/:handle ----
\* questions whose insert was acknowledged to the handle's owner id (history)
Submitted(userId) ==
    Cardinality({q \in SeededDb.questions : q.user_id = userId /\ tokens # {}})
    + Cardinality({i \in 1..Len(reqs) :
        /\ reqs[i].kind = "Submit" /\ Succeeded(i) /\ reqs[i].user.id = userId})

\* ---- index.js: the middleware a POST /api/questions/:handle meets, in the ----
\* ---- order of app.use                                                   ----
appStack == <<"globalLimiter", "questionRoutes", "questionLimiter">>

globalLimiterMax == 100

questionLimiterMax == 3

\* keyGenerator of the two limiters
keyOf(mw, ip, handle) ==
    IF mw = "globalLimiter" THEN <<ip>> ELSE <<ip, handle>>

\* the limiter's counter for a key: the requests of the window that reached it
Hits(mw, ip, handle) ==
    Cardinality({i \in 1..Len(reqs) :
        /\ mw \in reqs[i].via
        /\ keyOf(mw, reqs[i].ip, reqs[i].handle) = keyOf(mw, ip, handle)})

\* a limiter calls next() below its max; router.post('/:handle') of
\* questionRoutes answers every such request and never calls next()
CallsNext(mw, ip, handle) ==
    IF mw = "globalLimiter" THEN Hits(mw, ip, handle) < globalLimiterMax
    ELSE IF mw = "questionLimiter" THEN Hits(mw, ip, handle) < questionLimiterMax
    ELSE FALSE

\* the middleware the request runs through, from position k of the stack on
RECURSIVE Via(_, _, _)
Via(k, ip, handle) ==
    IF k > Len(appStack) THEN {}
    ELSE {appStack[k]} \cup
         (IF CallsNext(appStack[k], ip, handle) THEN Via(k + 1, ip, handle) ELSE {})

\* handleParamRules, questionRules, validate, then the handler's getUserByHandle
SubmitArrives(handle, text, ip, failed) ==
    LET via == Via(1, ip, handle)
        rec == [NewReq("Submit", NoToken, handle, 0, trim(text))
                  EXCEPT !.ip = ip, !.via = via]
        user == getUserByHandle(db, handle) IN
    IF "questionRoutes" \notin via
       THEN /\ failed = FALSE
            /\ faults' = faults
            /\ reqs' = Append(reqs, Done(rec, Resp(429, "Too many requests from this IP")))
    ELSE IF ~ (handleParamRules(handle) /\ questionRules(text))
       THEN /\ failed = FALSE
            /\ faults' = faults
            /\ reqs' = Append(reqs,
                  Done(rec, Invalid(handleParamErrors(handle) \cup questionErrors(text))))
       ELSE /\ Stmt(failed)
            /\ reqs' = Append(reqs,
                  IF failed THEN Done(rec, Resp(500, "Server error"))
                  ELSE IF user = NoUser THEN Done(rec, Resp(404, "Handle not found"))
                  ELSE [rec EXCEPT !.pc = "insert",
                                   !.user = [id |-> user.id, handle |-> user.handle]])

\* the submissions of one window, from two addresses
PostQuestion ==
    /\ Len(reqs) < MaxPosts
    /\ \E handle \in SubmitHandles, text \in QuestionTexts, ip \in {"ip1", "ip2"},
          failed \in BOOLEAN :
        SubmitArrives(handle, text, ip, failed)
    /\ UNCHANGED <<db, inTxn, snap, tokens, gone>>

\* Submit with any text a client may send
StartSubmitAny ==
    /\ Len(reqs) < MaxReq
    \* texts the profanity patterns match: plain, and with a digit for a letter
    /\ \E handle \in SubmitHandles,
          text \in QuestionTexts \cup {<<"d", "a", "m", "n", " ", "i", "t">>,
                                       <<"o", "h", " ", "s", "h", "1", "t">>},
          ip \in Ips, failed \in BOOLEAN :
        SubmitArrives(handle, text, ip, failed)
    /\ UNCHANGED <<db, inTxn, snap, tokens, gone>>

StartSubmit ==
    /\ Len(reqs) < MaxReq
    /\ \E handle \in SubmitHandles, text \in QuestionTexts, ip \in Ips,
          failed \in BOOLEAN :
        SubmitArrives(handle, text, ip, failed)
    /\ UNCHANGED <<db, inTxn, snap, tokens, gone>>

SubmitInsert(r) ==
    /\ reqs[r].kind = "Submit" /\ reqs[r].pc = "insert"
    /\ \E failed \in BOOLEAN :
        /\ Stmt(failed)
        /\ IF failed \/ ~ createQuestionOk(db, reqs[r].user.id)
              THEN /\ reqs' = [reqs EXCEPT ![r] = Done(@, Resp(500, "Server error"))]
                   /\ db' = db
              ELSE /\ db' = createQuestion(db, reqs[r].user.id, trim(reqs[r].text),
                                           reqs[r].ip, r)
                   /\ reqs' = [reqs EXCEPT ![r] =
                         Done(@, [Resp(201, "Question sent successfully")
                                    EXCEPT !.id = db'.seq.questions])]
    /\ UNCHANGED <<inTxn, snap, tokens, gone>>

\* ---- POST /users/create ----
\* handleRules and validate, then the handler's getUserByHandle
RegisterArrives(handle, failed) ==
    LET rec == NewReq("Register", NoToken, trim(handle), 0, "") IN
    IF ~ handleRules(handle)
       THEN /\ failed = FALSE
            /\ faults' = faults
            /\ reqs' = Append(reqs, Done(rec, Invalid(handleErrors(handle))))
       ELSE /\ Stmt(failed)
            /\ reqs' = Append(reqs,
                 IF failed
                    THEN Done(rec, [Resp(500, "Server error")
                                      EXCEPT !.error = "SQLITE_ERROR"])
                 ELSE IF getUserByHandle(db, trim(handle)) # NoUser
                    THEN Done(rec, Resp(400, "Handle already exists"))
                 ELSE [rec EXCEPT !.pc = "insert"])

StartRegister ==
    /\ Len(reqs) < MaxReq
    /\ \E handle \in {cat, Cat}, failed \in BOOLEAN : RegisterArrives(handle, failed)
    /\ UNCHANGED <<db, inTxn, snap, tokens, gone>>

\* Register and Submit with inputs at the limits of the rules
StartRegisterBoundary ==
    /\ Len(reqs) < MaxReq
    /\ \E handle \in {ab, a21, d123, api, cat}, failed \in BOOLEAN : RegisterArrives(handle, failed)
    /\ UNCHANGED <<db, inTxn, snap, tokens, gone>>

StartSubmitBoundary ==
    /\ Len(reqs) < MaxReq
    /\ \E handle \in SubmitHandles,
          text \in {<<"a">> \o [i \in 1..279 |-> "b"], <<"a">> \o [i \in 1..280 |-> "b"]},
          ip \in Ips,
          failed \in BOOLEAN :
        SubmitArrives(handle, text, ip, failed)
    /\ UNCHANGED <<db, inTxn, snap, tokens, gone>>

\* the catch answers 500 with error.message of whatever createUser threw
RegisterInsert(r) ==
    /\ reqs[r].kind = "Register" /\ reqs[r].pc = "insert"
    /\ \E failed \in BOOLEAN, secretKey \in Secrets :
        /\ Stmt(failed)
        /\ IF failed
              THEN /\ reqs' = [reqs EXCEPT ![r] =
                         Done(@, [Resp(500, "Server error") EXCEPT !.error = "SQLITE_ERROR"])]
                   /\ db' = db
           ELSE IF ~ createUserOk(db, reqs[r].handle)
              THEN /\ reqs' = [reqs EXCEPT ![r] =
                         Done(@, [Resp(500, "Server error")
                                    EXCEPT !.error = "SQLITE_CONSTRAINT: UNIQUE constraint failed: users.handle"])]
                   /\ db' = db
              ELSE /\ db' = createUser(db, reqs[r].handle, Hash(secretKey), r)
                   /\ reqs' = [reqs EXCEPT ![r] =
                         Done(@, [Resp(201, "Handle created successfully")
                                    EXCEPT !.secretKey = secretKey])]
    /\ UNCHANGED <<inTxn, snap, tokens, gone>>

\* ---- GET /stats/:handle ----
StartStats ==
    /\ Len(reqs) < MaxReq
    /\ \E token \in tokens, handle \in {t.handle : t \in tokens}, failed \in BOOLEAN :
        /\ Stmt(failed)
        /\ LET rec == authenticate(NewReq("Stats", token, handle, 0, ""),
                                   failed, "stats") IN
           reqs' = Append(reqs,
              IF rec.pc = "stats" /\ ~ handleParamRules(handle)
                 THEN Done(rec, Invalid(handleParamErrors(handle)))
              ELSE IF rec.pc = "stats" /\ rec.user.handle # rec.handle
                 THEN Done(rec, Resp(403, "Unauthorized"))
                 ELSE rec)
    /\ UNCHANGED <<db, inTxn, snap, tokens, gone>>

StatsGet(r) ==
    /\ reqs[r].kind = "Stats" /\ reqs[r].pc = "stats"
    /\ \E failed \in BOOLEAN :
        /\ Stmt(failed)
        /\ LET stats == getUserStats(db, reqs[r].user.id) IN
           reqs' = [reqs EXCEPT ![r] =
              IF failed THEN Done(@, Resp(500, "Server error"))
              ELSE Done(@, [Resp(200, "") EXCEPT !.stats =
                     [totalQuestions |-> stats.total_questions,
                      totalAnswers |-> stats.total_answers,
                      unansweredQuestions |-> stats.total_questions - stats.total_answers,
                      submitted |-> Submitted(reqs[r].user.id)]])]
    /\ UNCHANGED <<db, inTxn, snap, tokens, gone>>

\* ---- GET /questions/:handle/unanswered ----
transformQuestion(question) ==
    [id |-> question.id, userId |-> question.user_id, text |-> question.text,
     ipAddress |-> question.ip_address, createdAt |-> question.created_at]

\* the same store with another source address in every question row
SwapIp(ip) == IF ip = "ip1" THEN "ip2" ELSE "ip1"

OtherIps(d) ==
    [d EXCEPT !.questions = {[q EXCEPT !.ip_address = SwapIp(@)] : q \in @}]

StartGetUnanswered ==
    /\ Len(reqs) < MaxReq
    /\ \E token \in tokens, handle \in {t.handle : t \in tokens} \cup {Cat}, failed \in BOOLEAN :
        /\ Stmt(failed)
        /\ LET rec == authenticate(NewReq("GetUnanswered", token, handle, 0, ""),
                                   failed, "all") IN
           reqs' = Append(reqs,
              IF rec.pc = "all" /\ ~ handleParamRules(handle)
                 THEN Done(rec, Invalid(handleParamErrors(handle)))
              ELSE IF rec.pc = "all" /\ rec.user.handle # rec.handle
                 THEN Done(rec, Resp(403, "Unauthorized"))
                 ELSE rec)
    /\ UNCHANGED <<db, inTxn, snap, tokens, gone>>

\* twin (history): the listing the same statement gives on OtherIps(db)
GetUnansweredAll(r) ==
    /\ reqs[r].kind = "GetUnanswered" /\ reqs[r].pc = "all"
    /\ \E failed \in BOOLEAN :
        /\ Stmt(failed)
        /\ LET questions == getUnansweredQuestions(db, reqs[r].user.id)
               others == getUnansweredQuestions(OtherIps(db), reqs[r].user.id) IN
           reqs' = [reqs EXCEPT ![r] =
              IF failed THEN Done(@, Resp(500, "Server error"))
              ELSE Done(@, [Resp(200, "") EXCEPT
                     !.questions = {transformQuestion(q) : q \in questions},
                     !.twin = {transformQuestion(q) : q \in others}])]
    /\ UNCHANGED <<db, inTxn, snap, tokens, gone>>

\* ---- POST /users/auth ----
\* the handler's answer once getUserByHandle has returned user
authResponse(user, secretKey) ==
    IF user = NoUser THEN Resp(401, "Invalid credentials")
    ELSE IF user.auth_type = "twitter"
        THEN Resp(401, "This account uses Twitter authentication. Please sign in with Twitter.")
    ELSE IF user.secret_key = <<>> THEN Resp(500, "Server error")
    ELSE IF ~ compare(secretKey, user.secret_key) THEN Resp(401, "Invalid credentials")
    ELSE [Resp(200, "Authentication successful")
            EXCEPT !.token = generateToken(user.id, user.handle)]

\* the snapshot of the handler that does not look at auth_type
authResponseOld(user, secretKey) ==
    IF user = NoUser THEN Resp(401, "Invalid credentials")
    ELSE IF user.secret_key = <<>> THEN Resp(500, "Server error")
    ELSE IF ~ compare(secretKey, user.secret_key) THEN Resp(401, "Invalid credentials")
    ELSE [Resp(200, "Authentication successful")
            EXCEPT !.token = generateToken(user.id, user.handle)]

Issued(resp) == IF resp.token = NoToken THEN {} ELSE {resp.token}

\* row: the user row the handler's read returned
AuthArrives(kind, handle, secretKey, failed) ==
    LET user == getUserByHandle(db, handle)
        rec == [NewReq(kind, NoToken, handle, 0, secretKey) EXCEPT !.row = user]
        resp == IF failed THEN Resp(500, "Server error")
                ELSE IF kind = "Auth" THEN authResponse(user, secretKey)
                ELSE authResponseOld(user, secretKey) IN
    /\ Stmt(failed)
    /\ reqs' = Append(reqs, Done(IF failed THEN [rec EXCEPT !.row = NoUser] ELSE rec, resp))
    /\ tokens' = tokens \cup Issued(resp)

Auth ==
    /\ Len(reqs) < MaxReq
    /\ \E handle \in AuthHandles, secretKey \in AuthSecrets, failed \in BOOLEAN :
        AuthArrives("Auth", handle, secretKey, failed)
    /\ UNCHANGED <<db, inTxn, snap, gone>>

AuthOld ==
    /\ Len(reqs) < MaxReq
    /\ \E handle \in AuthHandles, secretKey \in AuthSecrets, failed \in BOOLEAN :
        AuthArrives("AuthOld", handle, secretKey, failed)
    /\ UNCHANGED <<db, inTxn, snap, gone>>

\* ---- GET /users/check/:handle ----
publicInfo(user) ==
    IF user.auth_type = "twitter"
        THEN [handle |-> user.handle, auth_type |-> user.auth_type,
              twitter_username |-> user.twitter_username]
        ELSE [handle |-> user.handle, auth_type |-> user.auth_type]

Check ==
    /\ Len(reqs) < MaxReq
    /\ \E handle \in AuthHandles \cup {Cat}, failed \in BOOLEAN :
        LET rec == NewReq("Check", NoToken, handle, 0, "")
            user == getUserByHandle(db, handle) IN
        IF ~ handleParamRules(handle)
           THEN /\ failed = FALSE
                /\ faults' = faults
                /\ reqs' = Append(reqs, Done(rec, Invalid(handleParamErrors(handle))))
           ELSE /\ Stmt(failed)
                /\ reqs' = Append(reqs,
                      IF failed THEN Done(rec, Resp(500, "Server error"))
                      ELSE IF user = NoUser THEN Done(rec, Resp(404, "Handle not found"))
                      ELSE Done(rec, [Resp(200, "") EXCEPT !.users = {publicInfo(user)}]))
    /\ UNCHANGED <<db, inTxn, snap, tokens, gone>>

\* ---- GET /users/directory ----
Directory ==
    /\ Len(reqs) < MaxReq
    /\ \E failed \in BOOLEAN :
        /\ Stmt(failed)
        /\ reqs' = Append(reqs, Done(NewReq("Directory", NoToken, <<>>, 0, ""),
              IF failed
                 THEN [Resp(500, "Failed to fetch user directory")
                         EXCEPT !.error = "SQLITE_ERROR"]
                 ELSE [Resp(200, "") EXCEPT !.users = getAllUsers(db)]))
    /\ UNCHANGED <<db, inTxn, snap, tokens, gone>>

\* ---- POST /users/kol-status ----
KolStatusUpdate(r) ==
    /\ reqs[r].kind = "KolStatus" /\ reqs[r].pc = "update"
    /\ \E failed \in BOOLEAN :
        /\ Stmt(failed)
        /\ IF failed
              THEN /\ reqs' = [reqs EXCEPT ![r] =
                         Done(@, [Resp(500, "Failed to update KOL status")
                                    EXCEPT !.error = "SQLITE_ERROR"])]
                   /\ db' = db
              ELSE /\ db' = updateUserKOLStatus(db, reqs[r].user.id, reqs[r].text = "true")
                   /\ reqs' = [reqs EXCEPT ![r] =
                         Done(@, Resp(200, "KOL status updated successfully"))]
    /\ UNCHANGED <<inTxn, snap, tokens, gone>>

\* ---- GET /users/kols ----
Kols ==
    /\ Len(reqs) < MaxReq
    /\ \E failed \in BOOLEAN :
        /\ Stmt(failed)
        /\ reqs' = Append(reqs, Done(NewReq("Kols", NoToken, <<>>, 0, ""),
              IF failed
                 THEN [Resp(500, "Failed to fetch KOLs") EXCEPT !.error = "SQLITE_ERROR"]
                 ELSE [Resp(200, "") EXCEPT !.users = getKOLs(db)]))
    /\ UNCHANGED <<db, inTxn, snap, tokens, gone>>

\* ---- GET /api/activity?since= ----
\* id holds the instant of req.query.since (without one it is Date.now() - 30000,
\* an instant of this range too), text holds since.toISOString(); a failing read
\* is answered 200 with empty lists
Activity ==
    /\ Len(reqs) < MaxReq
    /\ \E since \in 0..MaxReq, failed \in BOOLEAN :
        /\ Stmt(failed)
        /\ reqs' = Append(reqs,
              Done(NewReq("Activity", NoToken, <<>>, since, toISOString(since)),
              IF failed THEN Resp(200, "")
              ELSE [Resp(200, "")
                      EXCEPT !.questions = getRecentQuestions(db, toISOString(since)),
                             !.answers = getRecentAnswers(db, toISOString(since)),
                             !.users = getRecentUsers(db, toISOString(since))]))
    /\ UNCHANGED <<db, inTxn, snap, tokens, gone>>

\* ---- GET /auth/twitter/callback: the verify callback of TwitterStrategy ----
\* done(null, user): the route signs a token for user and redirects
LoggedIn(rec, id, handle) ==
    Done([rec EXCEPT !.user = [id |-> id, handle |-> handle]],
         [Resp(302, "") EXCEPT !.token = generateToken(id, handle)])

\* done(error, null): the error handler of the app answers with error.message
LoginFailed(rec, message) ==
    Done(rec, [Resp(500, message) EXCEPT !.error = message])

\* text holds profile.id, handle holds profile.username
StartExternalLogin ==
    /\ Len(reqs) < MaxReq
    \* what the provider reports: the account id and its present username
    /\ \E profile \in {[id |-> "t1", username |-> cat], [id |-> "t2", username |-> cat]},
          failed \in BOOLEAN :
        /\ Stmt(failed)
        /\ LET rec == NewReq("ExternalLogin", NoToken, profile.username, 0, profile.id)
               user == getUserByTwitterId(db, profile.id)
               next == IF failed THEN LoginFailed(rec, "SQLITE_ERROR")
                       ELSE IF user # NoUser
                          THEN LoggedIn([rec EXCEPT !.row = user], user.id, user.handle)
                       ELSE [rec EXCEPT !.pc = "handle"] IN
           /\ reqs' = Append(reqs, next)
           /\ tokens' = tokens \cup Issued(next.resp)
    /\ UNCHANGED <<db, inTxn, snap, gone>>

\* user.handle holds finalHandle; row holds existingUser
ExternalLoginHandle(r) ==
    /\ reqs[r].kind = "ExternalLogin" /\ reqs[r].pc = "handle"
    /\ \E failed \in BOOLEAN, now \in Timestamps :
        /\ Stmt(failed)
        /\ LET existingUser == getUserByHandle(db, reqs[r].handle) IN
           reqs' = [reqs EXCEPT ![r] =
              IF failed THEN LoginFailed(@, "SQLITE_ERROR")
              ELSE IF existingUser # NoUser
                 THEN [@ EXCEPT !.pc = "insert", !.row = existingUser,
                                !.user.handle = reqs[r].handle \o <<"_">> \o now]
              ELSE [@ EXCEPT !.pc = "insert", !.user.handle = reqs[r].handle]]
        /\ (failed \/ getUserByHandle(db, reqs[r].handle) = NoUser)
              => now = CHOOSE t \in Timestamps : TRUE
    /\ UNCHANGED <<db, inTxn, snap, tokens, gone>>

ExternalLoginInsert(r) ==
    /\ reqs[r].kind = "ExternalLogin" /\ reqs[r].pc = "insert"
    /\ \E failed \in BOOLEAN :
        /\ Stmt(failed)
        /\ LET finalHandle == reqs[r].user.handle
               next == IF failed THEN LoginFailed(reqs[r], "SQLITE_ERROR")
                       ELSE IF ~ createTwitterUserOk(db, finalHandle, reqs[r].text,
                                                     reqs[r].handle)
                          THEN LoginFailed(reqs[r], "SQLITE_CONSTRAINT: UNIQUE constraint failed")
                       ELSE LoggedIn(reqs[r], db.seq.users + 1, finalHandle) IN
           /\ db' = IF next.resp.status = 302
                       THEN createTwitterUser(db, finalHandle, reqs[r].text,
                                              reqs[r].handle, r)
                       ELSE db
           /\ reqs' = [reqs EXCEPT ![r] = next]
           /\ tokens' = tokens \cup Issued(next.resp)
    /\ UNCHANGED <<inTxn, snap, gone>>

\* ---- POST /deals/:id/accept ----
\* the checks of accept and reject on the deal row just read; new Date() is Now
dealRefusal(deal, userId, checksExpiry) ==
    IF deal = NoDeal THEN Resp(404, "Deal not found")
    ELSE IF deal.kol_user_id # userId THEN Resp(403, "Access denied")
    ELSE IF deal.status # "pending" THEN Resp(400, "Deal is already " \o deal.status)
    ELSE IF /\ checksExpiry /\ deal.offer_expires_at # <<>>
            /\ DateOf(deal.offer_expires_at) < Now
        THEN Resp(400, "Offer has expired")
    ELSE NoResp

AcceptGet(r) ==
    /\ reqs[r].kind = "Accept" /\ reqs[r].pc = "get"
    /\ \E failed \in BOOLEAN :
        /\ Stmt(failed)
        /\ LET refusal == dealRefusal(getDealById(db, reqs[r].id), reqs[r].user.id, TRUE) IN
           reqs' = [reqs EXCEPT ![r] =
              IF failed THEN Done(@, [Resp(500, "Failed to accept deal")
                                        EXCEPT !.error = "SQLITE_ERROR"])
              ELSE IF refusal # NoResp THEN Done(@, refusal)
              ELSE [@ EXCEPT !.pc = "update"]]
    /\ UNCHANGED <<db, inTxn, snap, tokens, gone>>

AcceptUpdate(r) ==
    /\ reqs[r].kind = "Accept" /\ reqs[r].pc = "update"
    /\ \E failed \in BOOLEAN :
        /\ Stmt(failed)
        /\ IF failed
              THEN /\ reqs' = [reqs EXCEPT ![r] =
                         Done(@, [Resp(500, "Failed to accept deal")
                                    EXCEPT !.error = "SQLITE_ERROR"])]
                   /\ db' = db
              ELSE /\ db' = updateDealStatus(db, reqs[r].id, "accepted")
                   /\ reqs' = [reqs EXCEPT ![r].pc = "reget"]
    /\ UNCHANGED <<inTxn, snap, tokens, gone>>

AcceptReget(r) ==
    /\ reqs[r].kind = "Accept" /\ reqs[r].pc = "reget"
    /\ \E failed \in BOOLEAN :
        /\ Stmt(failed)
        /\ reqs' = [reqs EXCEPT ![r] =
              IF failed THEN Done(@, [Resp(500, "Failed to accept deal")
                                        EXCEPT !.error = "SQLITE_ERROR"])
              ELSE Done(@, [Resp(200, "Deal accepted successfully")
                              EXCEPT !.deal = getDealById(db, reqs[r].id)])]
    /\ UNCHANGED <<db, inTxn, snap, tokens, gone>>

\* ---- POST /deals/:id/reject ----
RejectGet(r) ==
    /\ reqs[r].kind = "Reject" /\ reqs[r].pc = "get"
    /\ \E failed \in BOOLEAN :
        /\ Stmt(failed)
        /\ LET refusal == dealRefusal(getDealById(db, reqs[r].id), reqs[r].user.id, FALSE) IN
           reqs' = [reqs EXCEPT ![r] =
              IF failed THEN Done(@, [Resp(500, "Failed to reject deal")
                                        EXCEPT !.error = "SQLITE_ERROR"])
              ELSE IF refusal # NoResp THEN Done(@, refusal)
              ELSE [@ EXCEPT !.pc = "update"]]
    /\ UNCHANGED <<db, inTxn, snap, tokens, gone>>

RejectUpdate(r) ==
    /\ reqs[r].kind = "Reject" /\ reqs[r].pc = "update"
    /\ \E failed \in BOOLEAN :
        /\ Stmt(failed)
        /\ IF failed
              THEN /\ reqs' = [reqs EXCEPT ![r] =
                         Done(@, [Resp(500, "Failed to reject deal")
                                    EXCEPT !.error = "SQLITE_ERROR"])]
                   /\ db' = db
              ELSE /\ db' = updateDealStatus(db, reqs[r].id, "rejected")
                   /\ reqs' = [reqs EXCEPT ![r] =
                         Done(@, Resp(200, "Deal rejected successfully"))]
    /\ UNCHANGED <<inTxn, snap, tokens, gone>>

\* ---- GET /answers/:handle (routes/answers.js) ----
transformAnswer(answer) ==
    [id |-> answer.id, questionId |-> answer.question_id, userId |-> answer.user_id,
     questionText |-> answer.question_text, answerText |-> answer.answer_text,
     createdAt |-> answer.created_at, updatedAt |-> answer.updated_at]

NaN == [nan |-> TRUE, value |-> 0]

\* the decimal digits at the start of text
RECURSIVE parseDigits(_, _, _)
parseDigits(text, value, seen) ==
    IF text = <<>> \/ Head(text) \notin Digits
        THEN IF seen THEN [nan |-> FALSE, value |-> value] ELSE NaN
    ELSE parseDigits(Tail(text),
                     10 * value + (CHOOSE i \in 1..10 : DigitOf[i] = Head(text)) - 1,
                     TRUE)

\* parseInt(text): white space, a sign, decimal digits; NaN without a digit
RECURSIVE parseInt(_)
parseInt(text) ==
    IF text = <<>> THEN NaN
    ELSE IF Head(text) = " " THEN parseInt(Tail(text))
    ELSE IF Head(text) = "-"
        THEN LET n == parseDigits(Tail(text), 0, FALSE) IN [n EXCEPT !.value = 0 - @]
    ELSE IF Head(text) = "+" THEN parseDigits(Tail(text), 0, FALSE)
    ELSE parseDigits(text, 0, FALSE)

\* n || other: NaN and 0 are falsy
OrElse(n, other) == IF n.nan \/ n.value = 0 THEN other ELSE n.value

pageOf(query) == OrElse(parseInt(query.page), 1)

limitOf(query) ==
    LET limit == OrElse(parseInt(query.limit), 20) IN
    IF limit < 100 THEN limit ELSE 100

\* Math.ceil(total / limit), limit # 0
ceilDiv(total, limit) ==
    IF limit > 0 THEN (total + limit - 1) \div limit
    ELSE 0 - (total \div (0 - limit))

\* the request arrives and handleParamRules, validate run
StartGetAnswers ==
    /\ Len(reqs) < MaxPages
    /\ \E handle \in {ali, cat}, page \in {<<>>, <<"-", "1">>, <<"2">>},
          limit \in {<<>>, <<"0">>, <<"-", "1">>, <<"a", "b", "c">>, <<"5", "0", "0">>} :
        reqs' = Append(reqs,
            LET rec == [NewReq("GetAnswers", NoToken, handle, 0, <<>>)
                          EXCEPT !.query = [page |-> page, limit |-> limit]] IN
            IF handleParamErrors(handle) # {}
                THEN Done(rec, Invalid(handleParamErrors(handle)))
                ELSE [rec EXCEPT !.pc = "user"])
    /\ UNCHANGED <<db, inTxn, snap, faults, tokens, gone>>

GetAnswersUser(r) ==
    /\ reqs[r].kind = "GetAnswers" /\ reqs[r].pc = "user"
    /\ \E failed \in BOOLEAN :
        /\ Stmt(failed)
        /\ LET user == getUserByHandle(db, reqs[r].handle) IN
           reqs' = [reqs EXCEPT ![r] =
              IF failed THEN Done(@, Resp(500, "Server error"))
              ELSE IF user = NoUser THEN Done(@, Resp(404, "Handle not found"))
              ELSE [@ EXCEPT !.pc = "rows", !.user = [id |-> user.id, handle |-> user.handle]]]
    /\ UNCHANGED <<db, inTxn, snap, tokens, gone>>

GetAnswersRows(r) ==
    /\ reqs[r].kind = "GetAnswers" /\ reqs[r].pc = "rows"
    /\ \E failed \in BOOLEAN :
        /\ Stmt(failed)
        /\ LET answers == getAnswersByUserId(db, reqs[r].user.id, limitOf(reqs[r].query),
                              \* offset = (page - 1) * limit
                              (pageOf(reqs[r].query) - 1) * limitOf(reqs[r].query)) IN
           reqs' = [reqs EXCEPT ![r] =
              IF failed THEN Done(@, Resp(500, "Server error"))
              ELSE [@ EXCEPT !.pc = "count",
                             !.resp.answers = [i \in 1..Len(answers) |->
                                                  transformAnswer(answers[i])]]]
    /\ UNCHANGED <<db, inTxn, snap, tokens, gone>>

GetAnswersCount(r) ==
    /\ reqs[r].kind = "GetAnswers" /\ reqs[r].pc = "count"
    /\ \E failed \in BOOLEAN :
        /\ Stmt(failed)
        /\ LET count == countAnswersByUserId(db, reqs[r].user.id) IN
           reqs' = [reqs EXCEPT ![r] =
              IF failed THEN Done(@, Resp(500, "Server error"))
              ELSE Done(@, [Resp(200, "")
                              EXCEPT !.answers = reqs[r].resp.answers,
                                     !.total = count,
                                     !.page = pageOf(reqs[r].query),
                                     !.pages = ceilDiv(count, limitOf(reqs[r].query))])]
    /\ UNCHANGED <<db, inTxn, snap, tokens, gone>>

\* ---- runMigrations (utils/migrations.js), called by init at startup ----
\* The outcomes of migration.up(db) as sets of [db, ok]: the store it leaves
\* and whether it returned. failed: one of its statements failed for an
\* external reason. The tables exist, init has created them.
Outcome(d, ok) == [db |-> d, ok |-> ok]

\* 1: ALTER TABLE users ADD COLUMN for each missing column, then the UPDATE of
\* auth_type; a failure leaves the columns added before it
up1(d, failed) ==
    IF "twitter_id" \in d.schema.users
        THEN {Outcome(d, ~ failed)}
    ELSE LET missing == SelectSeq(columnsToAdd, LAMBDA c : c \notin d.schema.users)
             added(k) == [d EXCEPT !.schema.users =
                             @ \cup {missing[i] : i \in 1..k}]
         IN  IF failed
                THEN {Outcome(added(k), FALSE) : k \in 0..Len(missing)}
                ELSE {Outcome([added(Len(missing)) EXCEPT !.users =
                         {IF u.secret_key # <<>> /\ u.auth_type = ""
                             THEN [u EXCEPT !.auth_type = "secret_key"] ELSE u :
                          u \in @}], TRUE)}

\* 2: the answers table is recreated in a transaction, rolled back on an error
up2(d, failed) ==
    IF failed THEN {Outcome(d, FALSE)}
    ELSE {Outcome([d EXCEPT !.schema.answers = answers_new, !.schema.fk = FALSE], TRUE)}

\* 3: ALTER TABLE answers ADD COLUMN updated_at DATETIME DEFAULT CURRENT_TIMESTAMP.
\* SQLite refuses a column with a non-constant default: every build when the
\* table has rows, older builds also when it is empty.
up3(d, failed) ==
    IF "updated_at" \in d.schema.answers
        THEN {Outcome(d, ~ failed)}
    ELSE LET added == [d EXCEPT !.schema.answers = @ \cup {"updated_at"}] IN
         IF failed THEN {Outcome(d, FALSE), Outcome(added, FALSE)}
         ELSE IF d.answers # {} THEN {Outcome(d, FALSE)}
         ELSE {Outcome(d, FALSE), Outcome(added, TRUE)}

\* 4: ALTER TABLE users ADD COLUMN telegram_chat_id TEXT
up4(d, failed) ==
    IF "telegram_chat_id" \in d.schema.users
        THEN {Outcome(d, ~ failed)}
    ELSE IF failed THEN {Outcome(d, FALSE)}
    ELSE {Outcome([d EXCEPT !.schema.users = @ \cup {"telegram_chat_id"}], TRUE)}

up(version, d, failed) ==
    CASE version = 1 -> up1(d, failed)
      [] version = 2 -> up2(d, failed)
      [] version = 3 -> up3(d, failed)
      [] version = 4 -> up4(d, failed)

\* the for loop from position i on: the next migration that
\* !appliedMigrations.includes(migration.version) lets in, 0 when there is none
\* running every migration again
rest_all(appliedMigrations, i) ==
    IF i <= Len(migrations) THEN i ELSE 0

rest(appliedMigrations, i) ==
    LET pending == {j \in i..Len(migrations) :
                       migrations[j].version \notin appliedMigrations} IN
    IF pending = {} THEN 0 ELSE CHOOSE j \in pending : \A k \in pending : j <= k

\* the loop goes on at position i, or runMigrations returns
Loop(rec, appliedMigrations, i) ==
    IF rest(appliedMigrations, i) = 0 THEN [rec EXCEPT !.pc = "done", !.id = 0]
    ELSE [rec EXCEPT !.pc = "up", !.id = rest(appliedMigrations, i)]

\* runMigrations throws: init rejects and the process does not serve
Thrown(rec, err) == [rec EXCEPT !.pc = "done", !.err = err]

\* a process starts when no other one has the database file open
StartMigrations ==
    /\ Len(reqs) < MaxReq
    /\ \A r \in 1..Len(reqs) : reqs[r].pc = "done"
    /\ reqs' = Append(reqs, [NewReq("Migrations", NoToken, <<>>, 0, <<>>)
                               EXCEPT !.pc = "create"])
    /\ UNCHANGED <<db, inTxn, snap, faults, tokens, gone>>

\* CREATE TABLE IF NOT EXISTS migrations
MigrationsCreate(r) ==
    /\ reqs[r].kind = "Migrations" /\ reqs[r].pc = "create"
    /\ \E failed \in BOOLEAN :
        /\ Stmt(failed)
        /\ reqs' = [reqs EXCEPT ![r] =
              IF failed THEN Thrown(@, "SQLITE_ERROR") ELSE [@ EXCEPT !.pc = "select"]]
    /\ UNCHANGED <<db, inTxn, snap, tokens, gone>>

\* SELECT version FROM migrations
MigrationsSelect(r) ==
    /\ reqs[r].kind = "Migrations" /\ reqs[r].pc = "select"
    /\ \E failed \in BOOLEAN :
        /\ Stmt(failed)
        /\ LET appliedMigrations == {m.version : m \in db.migrations} IN
           reqs' = [reqs EXCEPT ![r] =
              IF failed THEN Thrown(@, "SQLITE_ERROR")
              ELSE Loop([@ EXCEPT !.appliedMigrations = appliedMigrations],
                        appliedMigrations, 1)]
    /\ UNCHANGED <<db, inTxn, snap, tokens, gone>>

\* await migration.up(db)
MigrationsUp(r) ==
    /\ reqs[r].kind = "Migrations" /\ reqs[r].pc = "up"
    /\ \E failed \in BOOLEAN :
        /\ Stmt(failed)
        /\ \E outcome \in up(migrations[reqs[r].id].version, db, failed) :
            /\ db' = outcome.db
            /\ reqs' = [reqs EXCEPT ![r] =
                  LET rec == [@ EXCEPT !.ran = Append(@,
                                 [version |-> migrations[reqs[r].id].version,
                                  ok |-> outcome.ok])] IN
                  IF outcome.ok THEN [rec EXCEPT !.pc = "record"]
                  ELSE Thrown(rec, "SQLITE_ERROR")]
    /\ UNCHANGED <<inTxn, snap, tokens, gone>>

\* INSERT INTO migrations (version, description) VALUES (?, ?)
MigrationsRecord(r) ==
    /\ reqs[r].kind = "Migrations" /\ reqs[r].pc = "record"
    /\ \E failed \in BOOLEAN :
        /\ Stmt(failed)
        /\ IF failed \/ \E m \in db.migrations : m.version = migrations[reqs[r].id].version
              THEN /\ db' = db
                   /\ reqs' = [reqs EXCEPT ![r] = Thrown(@, "SQLITE_ERROR")]
              ELSE /\ db' = [db EXCEPT !.migrations = @ \cup {migrations[reqs[r].id]}]
                   /\ reqs' = [reqs EXCEPT ![r] =
                         Loop(@, reqs[r].appliedMigrations, reqs[r].id + 1)]
    /\ UNCHANGED <<inTxn, snap, tokens, gone>>

\* ---- POST /questions/:id/answer, the snapshot whose transaction callback ----
\* ---- catches its own errors (routes/questions.js lines 73-112)          ----
StartAnswerOld ==
    \E id \in TargetIds, text \in AnswerTexts :
        StartAuthed("AnswerOld", <<>>, id, text, "begin")

\* await transaction() is outside any try: a rejected BEGIN answers nothing
AnswerOldBegin(r) ==
    /\ reqs[r].kind = "AnswerOld" /\ reqs[r].pc = "begin"
    /\ \E failed \in BOOLEAN :
        /\ Stmt(failed)
        /\ IF failed \/ inTxn
              THEN /\ reqs' = [reqs EXCEPT ![r].pc = "done"]
                   /\ UNCHANGED <<inTxn, snap>>
              ELSE /\ inTxn' = TRUE
                   /\ snap' = db
                   /\ reqs' = [reqs EXCEPT ![r].pc = "get", ![r].txn = "open"]
    /\ UNCHANGED <<db, tokens, gone>>

\* the callback answers and returns: runTransaction goes on to COMMIT
Answered(rec, resp) == [rec EXCEPT !.pc = "commit", !.resp = resp]

AnswerOldGet(r) ==
    /\ reqs[r].kind = "AnswerOld" /\ reqs[r].pc = "get"
    /\ \E failed \in BOOLEAN :
        /\ Stmt(failed)
        /\ LET question == getQuestionById(db, reqs[r].id) IN
           reqs' = [reqs EXCEPT ![r] =
              IF failed THEN Answered(@, Resp(500, "Server error"))
              ELSE IF question = NoQuestion
                 THEN Answered(@, Resp(404, "Question not found"))
              ELSE IF question.user_id # @.user.id
                 THEN [Answered(@, Resp(403, "Unauthorized"))
                         EXCEPT !.owner = question.user_id]
              ELSE [@ EXCEPT !.pc = "insert", !.question = question,
                             !.owner = question.user_id]]
    /\ UNCHANGED <<db, inTxn, snap, tokens, gone>>

AnswerOldInsert(r) ==
    /\ reqs[r].kind = "AnswerOld" /\ reqs[r].pc = "insert"
    /\ \E failed \in BOOLEAN :
        /\ Stmt(failed)
        /\ IF failed \/ ~ createAnswerOk(db, reqs[r].user.id)
              THEN /\ reqs' = [reqs EXCEPT ![r] = Answered(@, Resp(500, "Server error"))]
                   /\ db' = db
              ELSE /\ db' = createAnswer(db, reqs[r].id, reqs[r].user.id,
                                         reqs[r].question.text, trim(reqs[r].text), r)
                   /\ reqs' = [reqs EXCEPT ![r].pc = "delete",
                                           ![r].resp.id = db'.seq.answers]
    /\ UNCHANGED <<inTxn, snap, tokens, gone>>

AnswerOldDelete(r) ==
    /\ reqs[r].kind = "AnswerOld" /\ reqs[r].pc = "delete"
    /\ \E failed \in BOOLEAN :
        /\ Stmt(failed)
        /\ IF failed
              THEN /\ reqs' = [reqs EXCEPT ![r] = Answered(@, Resp(500, "Server error"))]
                   /\ UNCHANGED <<db, gone>>
              ELSE /\ db' = deleteQuestion(db, reqs[r].id)
                   /\ gone' = gone \cup Removed("questions", db.questions \ db'.questions, r)
                   /\ reqs' = [reqs EXCEPT ![r] =
                         Answered(@, [Resp(201, "Answer posted successfully")
                                        EXCEPT !.id = reqs[r].resp.id])]
    /\ UNCHANGED <<inTxn, snap, tokens>>

AnswerOldCommit(r) ==
    /\ reqs[r].kind = "AnswerOld" /\ reqs[r].pc = "commit"
    /\ \E failed \in BOOLEAN :
        /\ Stmt(failed)
        /\ IF failed \/ ~ inTxn
              THEN /\ reqs' = [reqs EXCEPT ![r].pc = "rollback"]
                   /\ UNCHANGED inTxn
              ELSE /\ inTxn' = FALSE
                   /\ reqs' = [reqs EXCEPT ![r].pc = "done", ![r].txn = "committed"]
    /\ UNCHANGED <<db, snap, tokens, gone>>

\* the error thrown after ROLLBACK rejects the handler: nobody is left to answer
AnswerOldRollback(r) ==
    /\ reqs[r].kind = "AnswerOld" /\ reqs[r].pc = "rollback"
    /\ \E failed \in BOOLEAN :
        /\ Stmt(failed)
        /\ IF failed \/ ~ inTxn
              THEN /\ reqs' = [reqs EXCEPT ![r].pc = "done"]
                   /\ UNCHANGED <<db, inTxn>>
              ELSE /\ db' = snap
                   /\ inTxn' = FALSE
                   /\ reqs' = [reqs EXCEPT ![r].pc = "done", ![r].txn = "rolled back"]
    /\ UNCHANGED <<snap, tokens, gone>>

\* the handlers the two snapshots of routes/questions.js share, and the others
Others ==
    \/ (\E id \in TargetIds : StartAuthed("Discard", <<>>, id, "", "get"))
    \/ \E r \in 1..Len(reqs) : DiscardGet(r)
    \/ \E r \in 1..Len(reqs) : DiscardDelete(r)
    \/ StartEditAnswer
    \/ \E r \in 1..Len(reqs) : EditAnswerUpdate(r)
    \/ (\E id \in TargetIds : StartAuthed("DeleteAnswer", <<>>, id, "", "delete"))
    \/ \E r \in 1..Len(reqs) : DeleteAnswerRun(r)
    \/ StartSubmit
    \/ \E r \in 1..Len(reqs) : SubmitInsert(r)
    \/ StartRegister
    \/ \E r \in 1..Len(reqs) : RegisterInsert(r)
    \/ StartStats
    \/ \E r \in 1..Len(reqs) : StatsGet(r)

Next ==
    \/ StartAnswer
    \/ \E r \in 1..Len(reqs) : AnswerBegin(r)
    \/ \E r \in 1..Len(reqs) : AnswerGet(r)
    \/ \E r \in 1..Len(reqs) : AnswerInsert(r)
    \/ \E r \in 1..Len(reqs) : AnswerDelete(r)
    \/ \E r \in 1..Len(reqs) : AnswerCommit(r)
    \/ \E r \in 1..Len(reqs) : AnswerRollback(r)
    \/ Others

Spec == Init /\ [][Next]_vars

NextOld ==
    \/ StartAnswerOld
    \/ \E r \in 1..Len(reqs) : AnswerOldBegin(r)
    \/ \E r \in 1..Len(reqs) : AnswerOldGet(r)
    \/ \E r \in 1..Len(reqs) : AnswerOldInsert(r)
    \/ \E r \in 1..Len(reqs) : AnswerOldDelete(r)
    \/ \E r \in 1..Len(reqs) : AnswerOldCommit(r)
    \/ \E r \in 1..Len(reqs) : AnswerOldRollback(r)
    \/ Others

\* the server with the older snapshot of the answer route mounted
SpecOld == Init /\ [][NextOld]_vars

\* the anonymous Submit and the owner's reads
NextRead ==
    \/ StartSubmitAny
    \/ \E r \in 1..Len(reqs) : SubmitInsert(r)
    \/ StartGetUnanswered
    \/ \E r \in 1..Len(reqs) : GetUnansweredAll(r)
    \/ StartStats
    \/ \E r \in 1..Len(reqs) : StatsGet(r)

SpecRead == Init /\ [][NextRead]_vars

\* the question submissions of one rate-limit window
NextLimit ==
    \/ PostQuestion
    \/ \E r \in 1..Len(reqs) : SubmitInsert(r)

SpecLimit == Init /\ [][NextLimit]_vars

\* the handlers of routes/users.js and routes/twitter-auth.js but auth, and the
\* activity feed
Users ==
    \/ StartRegister
    \/ \E r \in 1..Len(reqs) : RegisterInsert(r)
    \/ Check
    \/ Directory
    \/ (\E is_kol \in {"true", "false"} : StartAuthed("KolStatus", <<>>, 0, is_kol, "update"))
    \/ \E r \in 1..Len(reqs) : KolStatusUpdate(r)
    \/ Kols
    \/ Activity
    \/ StartExternalLogin
    \/ \E r \in 1..Len(reqs) : ExternalLoginHandle(r)
    \/ \E r \in 1..Len(reqs) : ExternalLoginInsert(r)

NextUsers == Auth \/ Users

SpecUsers == Init /\ [][NextUsers]_vars

NextUsersOld == AuthOld \/ Users

\* the server with the older snapshot of the auth route mounted
SpecUsersOld == Init /\ [][NextUsersOld]_vars

\* the Answer transaction on the shared connection, the external login and an
\* owner's read
NextLogin ==
    \/ StartAnswer
    \/ \E r \in 1..Len(reqs) : AnswerBegin(r)
    \/ \E r \in 1..Len(reqs) : AnswerGet(r)
    \/ \E r \in 1..Len(reqs) : AnswerInsert(r)
    \/ \E r \in 1..Len(reqs) : AnswerDelete(r)
    \/ \E r \in 1..Len(reqs) : AnswerCommit(r)
    \/ \E r \in 1..Len(reqs) : AnswerRollback(r)
    \/ StartExternalLogin
    \/ \E r \in 1..Len(reqs) : ExternalLoginHandle(r)
    \/ \E r \in 1..Len(reqs) : ExternalLoginInsert(r)
    \/ StartStats
    \/ \E r \in 1..Len(reqs) : StatsGet(r)

SpecLogin == Init /\ [][NextLogin]_vars

\* the activity feed and the handlers that insert the rows it reports
NextActivity ==
    \/ Activity
    \/ StartRegister
    \/ \E r \in 1..Len(reqs) : RegisterInsert(r)
    \/ StartSubmit
    \/ \E r \in 1..Len(reqs) : SubmitInsert(r)
    \/ StartAnswer
    \/ \E r \in 1..Len(reqs) : AnswerBegin(r)
    \/ \E r \in 1..Len(reqs) : AnswerGet(r)
    \/ \E r \in 1..Len(reqs) : AnswerInsert(r)
    \/ \E r \in 1..Len(reqs) : AnswerDelete(r)
    \/ \E r \in 1..Len(reqs) : AnswerCommit(r)
    \/ \E r \in 1..Len(reqs) : AnswerRollback(r)

SpecActivity == Init /\ [][NextActivity]_vars

\* Register and Submit at the limits of the validation rules
NextValidation ==
    \/ StartRegisterBoundary
    \/ \E r \in 1..Len(reqs) : RegisterInsert(r)
    \/ StartSubmitBoundary
    \/ \E r \in 1..Len(reqs) : SubmitInsert(r)

SpecValidation == Init /\ [][NextValidation]_vars

\* the two answers of a KOL to an offer
NextDeals ==
    \/ (\E id \in TargetIds : StartAuthed("Accept", <<>>, id, "", "get"))
    \/ \E r \in 1..Len(reqs) : AcceptGet(r)
    \/ \E r \in 1..Len(reqs) : AcceptUpdate(r)
    \/ \E r \in 1..Len(reqs) : AcceptReget(r)
    \/ (\E id \in TargetIds : StartAuthed("Reject", <<>>, id, "", "get"))
    \/ \E r \in 1..Len(reqs) : RejectGet(r)
    \/ \E r \in 1..Len(reqs) : RejectUpdate(r)

SpecDeals == Init /\ [][NextDeals]_vars

\* the store after ali has answered count questions, one of them under way when
\* the others were written
AnsweredDb(count) ==
    [SeededDb EXCEPT
        !.answers = {[NoAnswer EXCEPT !.id = i, !.question_id = i + 1, !.user_id = 1,
                                      !.question_text = q1, !.answer_text = a1,
                                      !.created_at = CURRENT_TIMESTAMP(IF i = 1 THEN 1 ELSE 0)] :
                        i \in 1..count},
        !.seq = [users |-> 2, questions |-> count + 1, answers |-> count]]

InitAnswered ==
    /\ \E count \in {3, 101} : db = AnsweredDb(count)
    /\ tokens = SeededTokens
    /\ inTxn = FALSE
    /\ snap = db
    /\ reqs = <<>>
    /\ faults = 0
    /\ gone = {}

\* the public listing of a handle's answers
NextPages ==
    \/ StartGetAnswers
    \/ \E r \in 1..Len(reqs) : GetAnswersUser(r)
    \/ \E r \in 1..Len(reqs) : GetAnswersRows(r)
    \/ \E r \in 1..Len(reqs) : GetAnswersCount(r)

SpecPages == InitAnswered /\ [][NextPages]_vars

\* a database file before its first runMigrations: one that init has just
\* created, and one of a release before the external login, empty or with an
\* answer
OldDb(d) ==
    [d EXCEPT !.users = {[u EXCEPT !.auth_type = ""] : u \in @},
              !.projects = {}, !.deals = {},
              !.schema = [users |-> {"id", "handle", "secret_key", "created_at"},
                          answers |-> answers_new, fk |-> TRUE],
              !.migrations = {}]

InitMigrations ==
    /\ \/ db = [EmptyDb EXCEPT !.schema = CreatedSchema, !.migrations = {}]
       \/ db = OldDb(SeededDb)
       \/ db = OldDb(AnsweredDb(1))
    /\ tokens = {}
    /\ inTxn = FALSE
    /\ snap = db
    /\ reqs = <<>>
    /\ faults = 0
    /\ gone = {}

\* the starts of the server on one database file
NextMigrations ==
    \/ StartMigrations
    \/ \E r \in 1..Len(reqs) : MigrationsCreate(r)
    \/ \E r \in 1..Len(reqs) : MigrationsSelect(r)
    \/ \E r \in 1..Len(reqs) : MigrationsUp(r)
    \/ \E r \in 1..Len(reqs) : MigrationsRecord(r)

SpecMigrations == InitMigrations /\ [][NextMigrations]_vars

\* ---- the claims ----
Reqs == 1..Len(reqs)

Status(r) == reqs[r].resp.status

IsDone(r) == reqs[r].pc = "done"

\* the seeded pending question 1 belongs to user 1: an Answer of it by its owner
OwnerAnswerOfPending(r) ==
    /\ tokens # {}
    /\ reqs[r].kind = "Answer" /\ reqs[r].id = 1 /\ reqs[r].token.userId = 1

\* C1: two Answer calls by the owner racing on the same pending question, with
\* no other request and no store failure, end with exactly one 201 and one 404,
\* and with no more than one Answer row for the question.
C1_RaceOneSuccessOneNotFound ==
    (/\ Len(reqs) = 2 /\ faults = 0
     /\ \A r \in Reqs : OwnerAnswerOfPending(r) /\ IsDone(r))
    => /\ {Status(1), Status(2)} = {201, 404}
       /\ Cardinality({a \in db.answers : a.question_id = 1}) <= 1

\* the text that was submitted as the question row inserted by request b
QuestionTextOf(b) ==
    IF b = 0 THEN (CHOOSE q \in SeededDb.questions : TRUE).text ELSE reqs[b].text

AnswerRowsOf(questionId) == {a \in db.answers : a.question_id = questionId}

\* C2: once an Answer has been acknowledged with 201, its question is not among
\* the owner's unanswered questions, at most one Answer row carries its
\* questionId, exactly one as long as no DeleteAnswer has removed the row, and
\* that row holds the submitted question text and, until an EditAnswer, the
\* submitted answer text.
C2_AnswerPostcondition ==
    \A r \in Reqs :
        (reqs[r].kind = "Answer" /\ IsDone(r) /\ Status(r) = 201) =>
            /\ \A q \in getUnansweredQuestions(db, reqs[r].user.id) : q.id # reqs[r].id
            /\ getQuestionById(db, reqs[r].id) = NoQuestion
            /\ Cardinality(AnswerRowsOf(reqs[r].id)) <= 1
            /\ (~ \E g \in gone : g[1] = "answers" /\ g[2] = r)
                    => Cardinality(AnswerRowsOf(reqs[r].id)) = 1
            /\ \A a \in AnswerRowsOf(reqs[r].id) :
                    /\ a.id = reqs[r].resp.id
                    /\ a.question_text = QuestionTextOf(reqs[r].question.by)
                    /\ a.updated_at = 0 => a.answer_text = reqs[r].text

\* C2 witness: an Answer was acknowledged and its row is in the store
C2_Witness ==
    \E r \in Reqs :
        /\ reqs[r].kind = "Answer" /\ IsDone(r) /\ Status(r) = 201
        /\ \E a \in db.answers :
            /\ a.question_id = reqs[r].id /\ a.by = r
            /\ a.question_text = q1 /\ a.answer_text = a1

AnswerKinds == {"Answer", "AnswerOld"}

\* C3: in the committed store no Answer row coexists with the Question row it
\* answers, and a question removed by a committed Answer transaction has its
\* Answer row stored (unless a DeleteAnswer removed that row afterwards).
C3_AnswerAtomic ==
    /\ \A a \in Committed.answers : \A q \in Committed.questions : q.id # a.question_id
    /\ \A g \in gone :
        (g[1] = "questions" /\ reqs[g[3]].kind \in AnswerKinds
            /\ reqs[g[3]].txn = "committed") =>
            \/ \E a \in Committed.answers : a.by = g[3]
            \/ \E h \in gone : h[1] = "answers" /\ h[2] = g[3]

\* C4: Answer and Discard are mutually exclusive: an Answer and a Discard of
\* one question id never both return success.
C4_AnswerDiscardExclusive ==
    \A r1, r2 \in Reqs :
        (/\ reqs[r1].kind = "Answer" /\ reqs[r2].kind = "Discard"
         /\ reqs[r1].id = reqs[r2].id /\ IsDone(r1) /\ IsDone(r2)
         /\ reqs[r1].question = reqs[r2].question)
        => ~ (Status(r1) = 201 /\ Status(r2) = 200)

\* C5: an Answer, Discard, EditAnswer or DeleteAnswer whose caller is not the
\* owner of the row it targets is answered 403 (store failures apart).
C5_NonOwnerForbidden ==
    \A r \in Reqs :
        (/\ reqs[r].kind \in {"Answer", "Discard", "EditAnswer", "DeleteAnswer"}
         /\ IsDone(r) /\ faults = 0
         /\ reqs[r].owner # 0 /\ reqs[r].owner # reqs[r].user.id)
        => Status(r) = 403

\* C6: a Submit, Register or Discard that was acknowledged with success stays
\* in the store: the question or user it inserted is there (or was removed by
\* a later DELETE statement), the question it discarded is not.
C6_AcknowledgedWritesStay ==
    \A r \in Reqs : faults = 0 =>
        /\ (reqs[r].kind = "Submit" /\ IsDone(r) /\ Status(r) = 201) =>
                \/ \E q \in db.questions : q.by = r
                \/ \E g \in gone : g[1] = "questions" /\ g[2] = r
        /\ (reqs[r].kind = "Register" /\ IsDone(r) /\ Status(r) = 201) =>
                \E u \in db.users : u.by = r /\ u.handle = reqs[r].handle
        /\ (reqs[r].kind = "Discard" /\ IsDone(r) /\ Status(r) = 200) =>
                reqs[r].question \notin db.questions

\* Conflict, read as widely as the code allows: 409 or the handler's own
\* "Handle already exists"
IsConflict(resp) ==
    resp.status = 409 \/ resp.message = "Handle already exists"

\* C7: a Register that arrives after a Register of a case variant of its handle
\* has succeeded is answered with Conflict, and no two Users share a handle.
C7_RegisterUnique ==
    /\ \A r \in Reqs :
        (reqs[r].kind = "Register" /\ IsDone(r) /\ reqs[r].prior = 1 /\ faults = 0)
            => IsConflict(reqs[r].resp)
    /\ \A u1, u2 \in db.users : u1.handle = u2.handle => u1 = u2

\* C8: two Registers of one new handle that both pass the existence check end
\* with one 201 and one Conflict, and no response carries the store's error.
C8_RegisterRace ==
    \A r1, r2 \in Reqs :
        (/\ r1 # r2 /\ faults = 0 /\ ~ inTxn
         /\ reqs[r1].kind = "Register" /\ reqs[r2].kind = "Register"
         /\ reqs[r1].handle = reqs[r2].handle
         /\ IsDone(r1) /\ IsDone(r2)
         /\ reqs[r1].prior = 0 /\ reqs[r2].prior = 0
         /\ Status(r1) = 201 /\ Status(r2) # 400)
        => /\ IsConflict(reqs[r2].resp)
           /\ Status(r2) # 500
           /\ reqs[r2].resp.error = ""

\* C9: totalQuestions of a GetOwnerStats response is never smaller than the
\* totalQuestions an earlier response reported for the handle.
C9_TotalQuestionsMonotone ==
    \A r \in Reqs :
        (reqs[r].kind = "Stats" /\ IsDone(r) /\ Status(r) = 200)
            => reqs[r].resp.stats.totalQuestions >= reqs[r].prior

\* C10: the unanswered count of a GetOwnerStats response is the number of
\* questions ever submitted to the handle less its answers, and is never
\* negative.
C10_UnansweredCount ==
    \A r \in Reqs :
        (reqs[r].kind = "Stats" /\ IsDone(r) /\ Status(r) = 200) =>
            /\ reqs[r].resp.stats.unansweredQuestions >= 0
            /\ faults = 0 /\ ~ inTxn =>
                reqs[r].resp.stats.unansweredQuestions =
                    reqs[r].resp.stats.submitted - reqs[r].resp.stats.totalAnswers

\* C11: the source address of a question is not exposed to the owner: a
\* GetUnanswered response is the same on two stores that differ only in the
\* ip_address of questions.
C11_SourceIpHidden ==
    \A r \in Reqs :
        (reqs[r].kind = "GetUnanswered" /\ IsDone(r) /\ Status(r) = 200)
            => reqs[r].resp.questions = reqs[r].resp.twin

\* C15: no Question whose text the profanity patterns match is ever stored.
C15_NoProfanityStored ==
    \A q \in db.questions : ~ containsProfanity(q.text)

\* Submit requests that arrived before request r from its address for its handle
EarlierPosts(r) ==
    Cardinality({i \in 1..(r - 1) :
        /\ reqs[i].kind = "Submit"
        /\ reqs[i].ip = reqs[r].ip /\ reqs[i].handle = reqs[r].handle})

\* C12: once the cap of Submit requests from one address for one registered
\* handle has been reached, a further such request is answered 429 and inserts
\* no Question.
C12_SubmitCapped ==
    \A r \in Reqs :
        (/\ reqs[r].kind = "Submit" /\ EarlierPosts(r) >= questionLimiterMax
         /\ getUserByHandle(db, reqs[r].handle) # NoUser /\ faults = 0) =>
            /\ IsDone(r) => Status(r) = 429
            /\ \A q \in db.questions : q.by # r

\* C13: the plaintext secret is returned once, by the Register that created the
\* User. The store holds only one-way hashes of it, and no other response (check,
\* auth, directory, KOL list, activity, KOL status) carries a plaintext secret:
\* the secret_key column that the KOL list exposes is the hash.
IsOneWay(v) == v = <<>> \/ v[1] = "bcrypt"

C13_PlaintextOnlyAtRegister ==
    /\ \A u \in db.users : IsOneWay(u.secret_key)
    /\ \A r \in 1..Len(reqs) :
        /\ reqs[r].resp.secretKey # ""
              => reqs[r].kind = "Register" /\ reqs[r].resp.status = 201
        /\ \A u \in reqs[r].resp.users :
              "secret_key" \in DOMAIN u => IsOneWay(u.secret_key)

C13_Witness ==
    /\ \E r \in 1..Len(reqs) :
        /\ reqs[r].kind = "Register" /\ reqs[r].resp.status = 201
        /\ reqs[r].resp.secretKey \in Secrets
    /\ \E r \in 1..Len(reqs) :
        /\ reqs[r].kind = "Kols" /\ reqs[r].resp.status = 200
        /\ \E u \in reqs[r].resp.users :
              "secret_key" \in DOMAIN u /\ u.secret_key # <<>>

\* C14: an Authenticate whose handle belongs to a User created through external
\* login is answered 401 and issues no token, whatever the secret.
C14_ExternalHandleUnauthorized ==
    \A r \in 1..Len(reqs) :
        (reqs[r].kind \in {"Auth", "AuthOld"} /\ IsDone(r)
            /\ reqs[r].row.auth_type = "twitter")
        => Status(r) = 401 /\ reqs[r].resp.token = NoToken

\* C16: ExternalLogin is idempotent by external id. Every finished login whose
\* statements all ran is a success, two successful logins with the same external
\* id return the same User, and no two User rows share a twitter_id.
IsLogin(r) == reqs[r].kind = "ExternalLogin" /\ IsDone(r)

C16_OneUserPerExternalId ==
    \A u, v \in db.users :
        (u.twitter_id # "" /\ u.twitter_id = v.twitter_id) => u.id = v.id

C16_ExternalLoginIdempotent ==
    /\ C16_OneUserPerExternalId
    /\ faults = 0 =>
          \A r, s \in 1..Len(reqs) :
              (r # s /\ IsLogin(r) /\ IsLogin(s) /\ reqs[r].text = reqs[s].text)
              => /\ Status(r) = 302
                 /\ reqs[r].resp.token = reqs[s].resp.token

\* C17: a login whose provider username is taken as a handle by another User
\* still succeeds, under a handle that no other User holds.
C17_ExternalLoginNeverDeadEnds ==
    /\ \A u, v \in db.users : u.handle = v.handle => u.id = v.id
    /\ faults = 0 =>
          \A r \in 1..Len(reqs) :
              (IsLogin(r) /\ reqs[r].row # NoUser /\ reqs[r].row.twitter_id # reqs[r].text)
              => /\ Status(r) = 302
                 /\ \E u \in db.users : /\ u.id = reqs[r].user.id
                                        /\ u.twitter_id = reqs[r].text
                                        /\ u.handle # reqs[r].handle

\* C18: a request that carries a token is authenticated against the User row as
\* it is when the request arrives. When the token's userId has no row the request
\* is answered 401; otherwise, unless authentication itself fails (401), the
\* identity the handler goes on with is the (id, handle) of that row.
C18_Arrival(r) ==
    LET u == getUserById(db, reqs'[r].token.userId) IN
    /\ u = NoUser => reqs'[r].pc = "done" /\ reqs'[r].resp.status = 401
    /\ u # NoUser => \/ reqs'[r].resp.status = 401
                     \/ reqs'[r].user = [id |-> u.id, handle |-> u.handle]

C18_TokenRereadsRow ==
    [][\A r \in 1..Len(reqs') :
          (r > Len(reqs) /\ reqs'[r].token # NoToken) => C18_Arrival(r)]_vars

\* a token was issued by an external login whose INSERT an Answer's ROLLBACK
\* undid, and a later request with that token was answered 401
C18_Witness ==
    \E r \in 1..Len(reqs) :
        /\ reqs[r].token \in tokens
        /\ getUserById(db, reqs[r].token.userId) = NoUser
        /\ IsDone(r) /\ Status(r) = 401 /\ reqs[r].resp.message = "User not found"

\* C19: GetUnanswered and GetOwnerStats are owner-only. A request for a well-formed
\* path handle whose token belongs to a User with another handle is answered 403
\* when its authentication statement runs, and a 200 response holds only stored
\* Questions of the caller, or the counts of the caller's own rows.
OwnerReads == {"GetUnanswered", "Stats"}

C19_Forbidden(r) ==
    LET u == getUserById(db, reqs'[r].token.userId) IN
    (/\ reqs'[r].kind \in OwnerReads /\ faults' = faults
     /\ handleParamRules(reqs'[r].handle)
     /\ u # NoUser /\ u.handle # reqs'[r].handle)
    => reqs'[r].pc = "done" /\ reqs'[r].resp.status = 403

C19_OnlyOwn(r) ==
    LET caller == reqs[r].user.id
        resp == reqs'[r].resp IN
    (/\ reqs[r].kind \in OwnerReads /\ reqs[r].pc # "done"
     /\ reqs'[r].pc = "done" /\ resp.status = 200)
    => /\ reqs[r].user.handle = reqs[r].handle
       /\ getUserById(db, caller).handle = reqs[r].handle
       /\ \A q \in resp.questions :
             /\ q.userId = caller
             /\ \E row \in db.questions : row.id = q.id /\ row.user_id = caller
       /\ reqs[r].kind = "Stats" =>
             /\ resp.stats.totalQuestions
                   = Cardinality({q \in db.questions : q.user_id = caller})
             /\ resp.stats.totalAnswers
                   = Cardinality({a \in db.answers : a.user_id = caller})

C20_EveryHandlerResponds ==
    \A r \in 1..Len(reqs) : IsDone(r) => Status(r) # 0

\* C21: a poll of the activity feed with cursor since reports a row only if the
\* row was created after since; so when two polls with increasing cursors report
\* the same row, the row was created after the later cursor.
InstantOf(created_at) ==
    2 * ((CHOOSE i \in 1..10 : DigitOf[i] = created_at[1]) - 1)
    + ((CHOOSE i \in 1..10 : DigitOf[i] = created_at[3]) - 1)

Reported(r) ==
    {<<"questions", x.id, x.created_at>> : x \in reqs[r].resp.questions}
    \cup {<<"answers", x.id, x.created_at>> : x \in reqs[r].resp.answers}
    \cup {<<"users", x.id, x.created_at>> : x \in reqs[r].resp.users}

IsPoll(r) == reqs[r].kind = "Activity" /\ IsDone(r)

C21_ActivityMonotone ==
    /\ \A r \in 1..Len(reqs) :
          IsPoll(r) => \A x \in Reported(r) : InstantOf(x[3]) > reqs[r].id
    /\ \A r, s \in 1..Len(reqs) :
          (IsPoll(r) /\ IsPoll(s) /\ reqs[r].id < reqs[s].id)
          => \A x \in Reported(r) \cap Reported(s) : InstantOf(x[3]) > reqs[s].id

\* two polls with increasing cursors both reported one row
C21_Witness ==
    \E r, s \in 1..Len(reqs) :
        /\ IsPoll(r) /\ IsPoll(s) /\ reqs[r].id < reqs[s].id
        /\ Reported(r) \cap Reported(s) # {}

\* C22: Register answers 400 with the reason of the rule that failed to a handle
\* of 2 characters, of 21 characters, of digits only and to a reserved word;
\* Submit lets a question of 280 characters through validation (it is stored
\* unless the handle is not found or a statement fails) and answers 400 to one
\* of 281.
Rejected(r, reason) == Status(r) = 400 /\ reason \in reqs[r].resp.errors

C22_Register(r) ==
    LET handle == reqs[r].handle IN
    /\ Len(handle) \in {2, 21}
          => Rejected(r, "Handle must be between 3 and 20 characters")
    /\ (\A i \in 1..Len(handle) : handle[i] \in Digits)
          => Rejected(r, "Handle cannot be only numbers")
    /\ handle \in Reserved => Rejected(r, "This handle is reserved")

C22_Submit(r) ==
    /\ Len(reqs[r].text) = 280
          => /\ Status(r) \in {201, 404, 500}
             /\ Status(r) = 500 => faults > 0
             /\ Status(r) = 201 => \E q \in db.questions : q.by = r /\ Len(q.text) = 280
    /\ Len(reqs[r].text) = 281
          => Rejected(r, "Question must be between 5 and 280 characters")

C22_ValidationBoundaries ==
    \A r \in 1..Len(reqs) :
        /\ (reqs[r].kind = "Register" /\ IsDone(r)) => C22_Register(r)
        /\ (reqs[r].kind = "Submit" /\ IsDone(r)) => C22_Submit(r)

\* a question of 280 characters was stored, one of 281 and a reserved handle
\* were rejected
C22_Witness ==
    /\ \E r \in 1..Len(reqs) :
        /\ reqs[r].kind = "Submit" /\ Status(r) = 201 /\ Len(reqs[r].text) = 280
    /\ \E r \in 1..Len(reqs) :
        /\ reqs[r].kind = "Submit" /\ Status(r) = 400 /\ Len(reqs[r].text) = 281
    /\ \E r \in 1..Len(reqs) :
        /\ reqs[r].kind = "Register" /\ Status(r) = 400 /\ reqs[r].handle = api

\* the other rejected handles of C22, each with its reason
C22_WitnessHandles ==
    /\ \E r \in 1..Len(reqs) : reqs[r].handle = ab /\ Status(r) = 400
    /\ \E r \in 1..Len(reqs) : reqs[r].handle = a21 /\ Status(r) = 400
    /\ \E r \in 1..Len(reqs) : reqs[r].handle = d123 /\ Status(r) = 400

\* C23: every User row, created by Register or by ExternalLogin, has a handle of
\* 3 to 20 lowercase letters and digits that is not all digits and is not a
\* reserved word.
WellFormedHandle(handle) ==
    /\ Len(handle) >= 3 /\ Len(handle) <= 20
    /\ \A i \in 1..Len(handle) : handle[i] \in LowerAlnum
    /\ \E i \in 1..Len(handle) : handle[i] \notin Digits
    /\ handle \notin Reserved

C23_HandlesWellFormed == \A u \in db.users : WellFormedHandle(u.handle)

\* C24: every User has exactly one credential, the one of its auth_type: a
\* secret_key user has a secret hash and no twitter_id, a twitter user has a
\* twitter_id and no secret hash; and no step changes the auth_type of a User.
OneCredential(u) ==
    \/ u.auth_type = "secret_key" /\ u.secret_key # <<>> /\ u.twitter_id = ""
    \/ u.auth_type = "twitter" /\ u.secret_key = <<>> /\ u.twitter_id # ""

C24_EveryUserOneCredential == \A u \in db.users : OneCredential(u)

C24_AuthTypeKept ==
    \A u \in db.users : \A v \in db'.users : u.id = v.id => u.auth_type = v.auth_type

C24_OneCredentialPath ==
    /\ C24_EveryUserOneCredential
    /\ [][C24_EveryUserOneCredential' /\ C24_AuthTypeKept]_vars

\* a User of each kind was created and a User row was updated
C24_Witness ==
    /\ \E u \in db.users : u.auth_type = "secret_key" /\ u.by > 0
    /\ \E u \in db.users : u.auth_type = "twitter"
    /\ \E u \in db.users : u.is_kol

\* C25: the step in which an EditAnswer runs its UPDATE changes at most the
\* answer_text and updated_at of the Answer it targets, and only when the caller
\* owns it: every other column of that row, every other Answer, every Question
\* and every User stay as they were. The step in which a DeleteAnswer runs its
\* DELETE removes at most the targeted Answer of the caller and nothing else.
C25_Edit(r) ==
    (reqs[r].kind = "EditAnswer" /\ reqs[r].pc = "update" /\ reqs'[r].pc = "done")
    => /\ db'.questions = db.questions /\ db'.users = db.users /\ db'.seq = db.seq
       /\ Cardinality(db'.answers) = Cardinality(db.answers)
       /\ \A a \in db.answers :
             \/ a \in db'.answers
             \/ /\ a.id = reqs[r].id /\ a.user_id = reqs[r].user.id
                /\ [a EXCEPT !.answer_text = reqs[r].text, !.updated_at = a.updated_at + 1]
                      \in db'.answers
       /\ reqs'[r].resp.status = 200
             => \E a \in db'.answers : a.id = reqs[r].id /\ a.answer_text = reqs[r].text

C25_Delete(r) ==
    (reqs[r].kind = "DeleteAnswer" /\ reqs[r].pc = "delete" /\ reqs'[r].pc = "done")
    => /\ db'.questions = db.questions /\ db'.users = db.users /\ db'.seq = db.seq
       /\ db'.answers \subseteq db.answers
       /\ \A a \in db.answers \ db'.answers :
             a.id = reqs[r].id /\ a.user_id = reqs[r].user.id
       /\ reqs'[r].resp.status = 200 => ~ \E a \in db'.answers : a.id = reqs[r].id

C25_EditDeleteFrame ==
    [][\A r \in 1..Len(reqs) : C25_Edit(r) /\ C25_Delete(r)]_vars

\* an Answer was edited by its owner and then deleted
C25_Witness ==
    /\ \E r \in 1..Len(reqs) : reqs[r].kind = "EditAnswer" /\ Status(r) = 200
    /\ \E r \in 1..Len(reqs) : reqs[r].kind = "DeleteAnswer" /\ Status(r) = 200

\* C26: every Answer row that a request inserted carries the id and the owner of
\* the Question row the request read, and that owner is the User the Question
\* was submitted to.
SubmittedTo(question) ==
    IF question.by = 0
        THEN (CHOOSE q \in SeededDb.questions : q.id = question.id).user_id
        ELSE reqs[question.by].user.id

C26_AnswerOwnedByQuestionOwner ==
    \A a \in db.answers :
        LET question == reqs[a.by].question IN
        /\ a.by \in 1..Len(reqs)
        /\ question # NoQuestion
        /\ a.question_id = question.id
        /\ a.user_id = question.user_id
        /\ a.user_id = SubmittedTo(question)

\* the Answer of a Question that a Submit had stored is in the store, and so
\* is a User who does not own it
C26_Witness ==
    \E a \in db.answers :
        /\ reqs[a.by].question.by > 0
        /\ \E u \in db.users : u.id # a.user_id

\* C27: accept and reject of one deal exclude each other and are final: no deal
\* has both an accept and a reject answered with success, and no step changes
\* the status of a deal that is not pending.
C27_NotBoth ==
    \A r, s \in 1..Len(reqs) :
        (/\ reqs[r].kind = "Accept" /\ reqs[s].kind = "Reject"
         /\ reqs[r].id = reqs[s].id /\ IsDone(r) /\ IsDone(s))
        => ~ (Status(r) = 200 /\ Status(s) = 200)

C27_Final ==
    \A x \in db.deals : \A y \in db'.deals :
        (x.id = y.id /\ x.status # "pending") => y.status = x.status

C27_AcceptRejectExclusive == []C27_NotBoth /\ [][C27_Final]_vars

\* C28: the status of a deal becomes accepted only in a step of an accept
\* request of the deal's KOL, taken while the deal is pending, the request
\* having arrived before the offer expired; an accept or a reject of a deal by a User who is not its KOL is
\* answered 403 when its statements run, and changes no deal.
AcceptedBy(x, r) ==
    /\ reqs[r].kind = "Accept" /\ reqs[r].pc = "update" /\ reqs[r].id = x.id
    /\ reqs[r].user.id = x.kol_user_id
    /\ x.status = "pending"
    \* request r arrived at instant r + 1
    /\ ~ (x.offer_expires_at # <<>> /\ DateOf(x.offer_expires_at) < r + 1)

C28_Accepted ==
    \A x \in db.deals : \A y \in db'.deals :
        (x.id = y.id /\ y.status = "accepted" /\ x.status # "accepted")
        => \E r \in 1..Len(reqs) : AcceptedBy(x, r) /\ reqs'[r].pc # "update"

C28_Others ==
    \A r \in 1..Len(reqs) :
        (/\ reqs[r].kind \in {"Accept", "Reject"} /\ reqs[r].pc # "done"
         /\ reqs'[r] # reqs[r] /\ faults' = faults
         /\ getDealById(db, reqs[r].id) # NoDeal
         /\ getDealById(db, reqs[r].id).kol_user_id # reqs[r].user.id)
        => /\ reqs'[r].pc = "done" /\ reqs'[r].resp.status = 403
           /\ db' = db

C28_OnlyKolAccepts == [][C28_Accepted /\ C28_Others]_vars

C28_OthersRefused == [][C28_Others]_vars

\* C29: a listing of a handle's answers that is answered with success holds at
\* most 100 answers, whatever the page and limit parameters are.
C29_AtMostHundred ==
    \A r \in 1..Len(reqs) :
        (reqs[r].kind = "GetAnswers" /\ IsDone(r) /\ Status(r) = 200)
        => Len(reqs[r].resp.answers) <= 100

\* C30: a run of runMigrations calls up in ascending order of version, each
\* version at most once, and never for a version that is recorded; a version
\* is written to the migrations table only by the run whose call of up for it
\* has just returned; after an up or a record that failed the run calls no
\* other up and writes nothing more; and a run made when every version is
\* recorded changes nothing.
Recorded == {m.version : m \in db.migrations}

EveryVersion == {migrations[i].version : i \in 1..Len(migrations)}

C30_Ascending ==
    \A r \in 1..Len(reqs) : \A i, j \in 1..Len(reqs[r].ran) :
        i < j => reqs[r].ran[i].version < reqs[r].ran[j].version

C30_StopsAtFailure ==
    \A r \in 1..Len(reqs) :
        /\ \A i \in 1..Len(reqs[r].ran) :
              ~ reqs[r].ran[i].ok
              => i = Len(reqs[r].ran) /\ reqs[r].pc = "done" /\ reqs[r].err # ""
        /\ reqs[r].kind = "Migrations" /\ reqs[r].err # "" => reqs[r].pc = "done"

C30_UpSucceededFirst ==
    \A m \in db.migrations :
        \E r \in 1..Len(reqs) : \E i \in 1..Len(reqs[r].ran) :
            reqs[r].ran[i] = [version |-> m.version, ok |-> TRUE]

C30_Step ==
    \A r \in 1..Len(reqs) :
        LET rec == reqs[r] IN
        \* up is not called for a recorded version
        /\ Len(reqs'[r].ran) > Len(rec.ran)
           => reqs'[r].ran[Len(reqs'[r].ran)].version \notin Recorded
        \* a run that has ended does nothing more
        /\ (rec.kind = "Migrations" /\ rec.pc = "done") => reqs'[r] = rec
        \* a version is recorded by the run whose up for it has just returned
        /\ (rec.kind = "Migrations" /\ reqs'[r] # rec /\ db'.migrations # db.migrations)
           => /\ rec.ran # <<>> /\ rec.ran[Len(rec.ran)].ok
              /\ reqs'[r].ran = rec.ran
              /\ db' = [db EXCEPT !.migrations = @ \cup
                          {CHOOSE m \in db'.migrations :
                              m.version = rec.ran[Len(rec.ran)].version}]
              /\ rec.ran[Len(rec.ran)].version \notin Recorded
        \* every version is recorded: nothing changes
        /\ (rec.kind = "Migrations" /\ Recorded = EveryVersion)
           => db' = db /\ reqs'[r].ran = rec.ran

C30_RunMigrations ==
    /\ [](C30_Ascending /\ C30_StopsAtFailure /\ C30_UpSucceededFirst)
    /\ [][C30_Step /\ (db'.migrations # db.migrations
                        => \E r \in 1..Len(reqs) : reqs'[r] # reqs[r])]_vars

\* a run failed, the next one recorded every version that was missing, and a
\* third one found them all recorded and returned without calling up
C30_Witness ==
    /\ Len(reqs) = 3
    /\ \A r \in 1..3 : reqs[r].kind = "Migrations" /\ reqs[r].pc = "done"
    /\ reqs[1].err # "" /\ reqs[1].ran # <<>>
    /\ reqs[2].err = "" /\ reqs[2].ran # <<>>
    /\ reqs[3].err = "" /\ reqs[3].ran = <<>>
    /\ Recorded = EveryVersion
====
